---- MODULE Spec2Model ----
(***************************************************************************)
(* Electron wrapper applications (Claude, ChatGPT, Grok, Lumo): the        *)
(* navigation policy, the network filter and the window lifecycle of the   *)
(* wrappers' main.js.                                                      *)
(*                                                                         *)
(* URLs and host names are TLA+ strings, read character by character with  *)
(* SubSeq, so that suffix matching, lower-casing and URL parsing are       *)
(* computed as the code computes them.                                     *)
(***************************************************************************)
EXTENDS Integers, Sequences, FiniteSets, TLC

(***************************************************************************)
(* Bounds of the model.                                                    *)
(***************************************************************************)
\* longest prefix put in front of an allow-list entry to build a test host
MaxPrefixLen == 2
\* BrowserWindow constructions followed in one process
MaxWindows == 2
\* process launches followed in one behaviour
MaxLaunches == 2
\* a token's age is followed up to here, in milliseconds
MaxAge == 12000
\* processes of one wrapper launched side by side
MaxProcs == 3
\* launches let through by one token are counted up to here
MaxPasses == 2
\* second-instance events that can wait for the lock holder
MaxSignals == 2

(***************************************************************************)
(* Strings.                                                                *)
(***************************************************************************)
Ch(s, i) == SubSeq(s, i, i)

UpperAlpha == "ABCDEFGHIJKLMNOPQRSTUVWXYZ"
LowerAlpha == "abcdefghijklmnopqrstuvwxyz"

UpperLetters == {Ch(UpperAlpha, i) : i \in 1..26}
LowerLetters == {Ch(LowerAlpha, i) : i \in 1..26}

\* the letter of the other case, as a table
LowerOf == [c \in UpperLetters |->
              Ch(LowerAlpha, CHOOSE i \in 1..26 : Ch(UpperAlpha, i) = c)]
UpperOf == [c \in LowerLetters |->
              Ch(UpperAlpha, CHOOSE i \in 1..26 : Ch(LowerAlpha, i) = c)]

IsAlpha(c) == c \in UpperLetters \/ c \in LowerLetters

LowerChar(c) == IF c \in UpperLetters THEN LowerOf[c] ELSE c

UpperChar(c) == IF c \in LowerLetters THEN UpperOf[c] ELSE c

RECURSIVE toLowerCase(_)
\* String.prototype.toLowerCase on ASCII input
toLowerCase(s) ==
  IF s = "" THEN "" ELSE LowerChar(Ch(s, 1)) \o toLowerCase(SubSeq(s, 2, Len(s)))

RECURSIVE toUpperCase(_)
toUpperCase(s) ==
  IF s = "" THEN "" ELSE UpperChar(Ch(s, 1)) \o toUpperCase(SubSeq(s, 2, Len(s)))

\* String.prototype.endsWith
endsWith(s, suffix) ==
  /\ Len(s) >= Len(suffix)
  /\ SubSeq(s, Len(s) - Len(suffix) + 1, Len(s)) = suffix

startsWith(s, prefix) ==
  /\ Len(s) >= Len(prefix)
  /\ SubSeq(s, 1, Len(prefix)) = prefix

\* index of the first character of s that is c, 0 when there is none
IndexOf(s, c) ==
  LET hits == {i \in 1..Len(s) : Ch(s, i) = c}
  IN  IF hits = {} THEN 0 ELSE CHOOSE i \in hits : \A j \in hits : i <= j

\* s without its leading "/" characters
StripSlashes(s) ==
  LET keep == {i \in 1..Len(s) : Ch(s, i) # "/"}
  IN  IF keep = {} THEN ""
      ELSE SubSeq(s, CHOOSE i \in keep : \A j \in keep : i <= j, Len(s))

(***************************************************************************)
(* new URL(string), as the WHATWG URL parser of the runtime computes it    *)
(* on strings over letters, ".", "-", ":", "/" (no base URL is given, so a  *)
(* string without a scheme does not parse).  The result holds the fields   *)
(* the wrappers read: protocol and hostname; ok = FALSE stands for the     *)
(* TypeError the constructor throws.                                       *)
(***************************************************************************)
SpecialSchemes == {"http", "https", "ws", "wss", "ftp", "file"}

ParseFailure == [ok |-> FALSE, protocol |-> "", hostname |-> ""]

\* authority = host [":" port]; a port must be digits, and there are none
ParseAuthority(scheme, authority) ==
  LET colon == IndexOf(authority, ":")
      host  == IF colon = 0 THEN authority ELSE SubSeq(authority, 1, colon - 1)
      port  == IF colon = 0 THEN "" ELSE SubSeq(authority, colon + 1, Len(authority))
  IN  IF port # "" THEN ParseFailure
      ELSE IF scheme \in SpecialSchemes
        THEN IF host = "" /\ scheme # "file" THEN ParseFailure
             ELSE [ok |-> TRUE, protocol |-> scheme \o ":",
                   hostname |-> toLowerCase(host)]
        ELSE [ok |-> TRUE, protocol |-> scheme \o ":", hostname |-> host]

UpToSlash(s) ==
  LET slash == IndexOf(s, "/")
  IN  IF slash = 0 THEN s ELSE SubSeq(s, 1, slash - 1)

ParseURL(s) ==
  LET colon == IndexOf(s, ":")
      raw   == SubSeq(s, 1, colon - 1)
      rest  == SubSeq(s, colon + 1, Len(s))
      scheme == toLowerCase(raw)
  IN  IF colon <= 1 THEN ParseFailure
      ELSE IF ~IsAlpha(Ch(s, 1)) THEN ParseFailure
      ELSE IF \E i \in 1..Len(raw) : ~(IsAlpha(Ch(raw, i)) \/ Ch(raw, i) \in {".", "-"})
        THEN ParseFailure
      ELSE IF scheme \in SpecialSchemes \ {"file"}
        THEN ParseAuthority(scheme, UpToSlash(StripSlashes(rest)))
      ELSE IF startsWith(rest, "//")
        THEN ParseAuthority(scheme, UpToSlash(SubSeq(rest, 3, Len(rest))))
      ELSE [ok |-> TRUE, protocol |-> scheme \o ":", hostname |-> ""]

(***************************************************************************)
(* Wrapper identities and their allow-lists.                               *)
(***************************************************************************)
Variants == {"claude", "chatgpt", "grok", "lumo"}

ALLOWED_HOSTS(v) ==
  CASE v = "claude"  -> {"claude.ai", "anthropic.com", "cloudflare.com",
                         "claudeusercontent.com", "cloudflareinsights.com"}
    [] v = "chatgpt" -> {"chatgpt.com", "openai.com", "oaiusercontent.com",
                         "oaistatic.com", "challenges.cloudflare.com"}
    [] v = "grok"    -> {"grok.com", "x.ai", "cloudflare.com", "xai.com",
                         "cloudflareinsights.com", "grokipedia.com",
                         "grokusercontent.com"}
    [] v = "lumo"    -> {"proton.me"}

\* the origin loaded when nothing is restored
DefaultOrigin(v) ==
  CASE v = "claude"  -> "https://claude.ai/"
    [] v = "chatgpt" -> "https://chatgpt.com/"
    [] v = "grok"    -> "https://grok.com/"
    [] v = "lumo"    -> "https://lumo.proton.me/"

(***************************************************************************)
(* Domain policy.                                                          *)
(***************************************************************************)
\* a bug that drops the dot boundary of the suffix match
HostMatches_NoDot(host, a) == host = a \/ endsWith(host, a)

\* host === a || host.endsWith(`.${a}`)
HostMatches(host, a) == host = a \/ endsWith(host, "." \o a)

\* a bug that lets plain http through
ProtocolIsHttps_AnyHttp(protocol) == protocol \in {"http:", "https:"}

\* u.protocol !== 'https:' is the rejection test
ProtocolIsHttps(protocol) == protocol = "https:"

isAllowed(v, urlString) ==
  LET u == ParseURL(urlString)
  IN  IF ~u.ok THEN FALSE
      ELSE IF ~ProtocolIsHttps(u.protocol) THEN FALSE
      ELSE LET host == toLowerCase(u.hostname)
           IN  \E a \in ALLOWED_HOSTS(v) : HostMatches(host, a)

\* a bug that forgets the scheme test
ExternalDecision_NoScheme(ok, protocol, allowed) == ok /\ ~allowed

\* the decision of shouldOpenExternally from the parse and from isAllowed
ExternalDecision(ok, protocol, allowed) ==
  IF ~ok THEN FALSE
  ELSE IF protocol # "http:" /\ protocol # "https:" THEN FALSE
  ELSE ~allowed

shouldOpenExternally(v, targetUrl) ==
  LET u == ParseURL(targetUrl)
  IN  ExternalDecision(u.ok, u.protocol, isAllowed(v, targetUrl))

\* a bug that lets an unparseable URL through
FilterDecision_FailOpen(ok, protocol, allowed) ==
  IF ~ok THEN FALSE
  ELSE IF protocol # "http:" /\ protocol # "https:" THEN FALSE
  ELSE ~allowed

\* the cancel flag the onBeforeRequest callback answers with
FilterDecision(ok, protocol, allowed) ==
  IF ~ok THEN TRUE
  ELSE IF protocol # "http:" /\ protocol # "https:" THEN FALSE
  ELSE ~allowed

onBeforeRequestCancel(v, url) ==
  LET u == ParseURL(url)
  IN  FilterDecision(u.ok, u.protocol, isAllowed(v, url))

\* if (process?.stdout?.isTTY) console.log(msg): whether a line is written
logIfTerminal(tty) == tty

\* logBlockedUrl: nothing without a terminal; with one, the parsed URL is
\* logged, or the raw one through logIfTerminal when new URL throws
logBlockedUrl(tty, detailsUrl) ==
  IF ~tty THEN FALSE
  ELSE IF ParseURL(detailsUrl).ok THEN TRUE
  ELSE logIfTerminal(tty)

\* whether the onBeforeRequest callback writes a line for the request:
\* Claude and Lumo call logBlockedUrl in both cancelling branches, Grok calls
\* console.log('[BLOCKED]', details.url) where isAllowed fails and nothing in
\* its catch, ChatGPT logs nothing
onBeforeRequestLogs(v, tty, url) ==
  IF ~onBeforeRequestCancel(v, url) THEN FALSE
  ELSE IF v \in {"claude", "lumo"} THEN logBlockedUrl(tty, url)
  ELSE IF v = "grok" THEN ParseURL(url).ok
  ELSE FALSE

\* a bug: plain http is not handed to the system browser
WindowOpenExternal_HttpsOnly(ok, protocol) == ok /\ protocol = "https:"

\* new URL(url) did not throw and u.protocol is 'http:' or 'https:'
WindowOpenExternal(ok, protocol) == ok /\ protocol \in {"http:", "https:"}

\* the handler given to setWindowOpenHandler: whether shell.openExternal(url)
\* is called, and the action it returns
windowOpenHandler(url) ==
  LET u == ParseURL(url)
  IN  [external |-> WindowOpenExternal(u.ok, u.protocol), action |-> "deny"]

(***************************************************************************)
(* State.                                                                  *)
(***************************************************************************)
VARIABLES
  variant,                  \* the wrapper identity this build is
  \* ---- one process: the module state of main.js
  app,                      \* "notStarted", "starting", "ready", "quitting", "exited"
  win,                      \* let win: 0 is null, else a window id
  creatingPromise,          \* "null", "pending", "resolved" ("rejected" is never kept)
  isWindowCreationStarted,  \* Grok only
  networkLockdownInstalled,
  filtersInstalled,         \* how often webRequest.onBeforeRequest was registered
  quittingFromGesture,      \* Claude and ChatGPT only
  isRelaunching,            \* Grok only
  exitTimer,                \* Grok: -1, or the milliseconds left of setTimeout(app.exit)
  windows,                  \* the BrowserWindow objects constructed by this process
  created,                  \* how many BrowserWindow objects it constructed
  \* ---- the user data directory
  restoreFile,              \* restore-state.json
  tokenFile,                \* relaunch-token.json
  \* ---- observations
  launches,                 \* processes launched so far
  lastCall,                 \* the latest createWindowOnce call and how it returned
  known,                    \* the record whose load outcome is known, and the launch
                            \* that loaded it; reset by a relaunch gesture
  polInput,                 \* the URL the policy is asked about
  isTTY,                    \* process.stdout.isTTY
  polEvent,                 \* the latest policy call: kind, url, result
  polPrev,                  \* how the request before the latest one was answered
  polAction,                \* what the handler did besides: "none", "deny", "allow"
                            \* (window open), "external" (navigation), "logged"
                            \* (a line on the diagnostic stream)
  \* ---- the keyboard handler on bounded key events (KeySpec)
  keyInput,                 \* the input of a before-input-event
  sinceFocus,               \* ms since the window's latest focus event
  keyOutcome,               \* what the handler called and whether it consumed the event
  lastGate,                 \* the startup gate run of the step just taken: its
                            \* branch, the age and count it read, the count it left
  lastSecond,               \* the second-instance handler run of the step just taken
  tokenPasses,              \* launches let through on account of the token written
                            \* by the latest gesture
  gestureAge,               \* ms since the restart gesture that wrote the token on
                            \* disk, by the wall clock; -1 when no such token is
                            \* there (followed in the lifecycle specification)
  \* ---- the processes of one wrapper identity (LaunchSpec)
  procs,                    \* each process: where it is in main.js, what it read
  lock,                     \* the holder of the single-instance lock, 0 if free
  signals,                  \* second-instance events not yet handled by the holder
  lastWrite,                \* the latest change of a persisted file and who made it
  readySince                \* a window reached ready and no gesture came since

procVars == <<app, win, creatingPromise, isWindowCreationStarted,
              networkLockdownInstalled, filtersInstalled, quittingFromGesture, isRelaunching,
              exitTimer, windows, created>>
diskVars == <<restoreFile, tokenFile>>
obsVars  == <<launches, lastCall, known>>
keyVars  == <<keyInput, sinceFocus, keyOutcome>>
polVars  == <<polInput, isTTY, polEvent, polPrev, polAction, keyVars>>
histVars == <<lastGate, lastSecond, tokenPasses, gestureAge>>
launchVars == <<procs, lock, signals, lastWrite, readySince>>
vars == <<variant, procVars, diskVars, obsVars, polVars, histVars, launchVars>>

(***************************************************************************)
(* The persisted files.                                                    *)
(*   restore-state.json : absent, not JSON, or a JSON object whose         *)
(*                        restoreUrl is a string (isString) or is not.     *)
(*   relaunch-token.json: absent, or {token, ts, allowedLaunches}; the     *)
(*                        model keeps the token's age, Date.now() - ts,    *)
(*                        which is all the code reads of ts.               *)
(***************************************************************************)
NoFile == [state |-> "absent", restoreUrl |-> "", isString |-> FALSE]
CorruptFile == [state |-> "corrupt", restoreUrl |-> "", isString |-> FALSE]
NonStringRecord == [state |-> "json", restoreUrl |-> "", isString |-> FALSE]
RestoreRecord(url) == [state |-> "json", restoreUrl |-> url, isString |-> TRUE]

\* a JavaScript value that is null or a string
Null == [null |-> TRUE, value |-> ""]
Str(s) == [null |-> FALSE, value |-> s]
Truthy(x) == ~x.null /\ x.value # ""

\* JSON.stringify({ restoreUrl: url, ts: Date.now() }) written to the file
writeRestoreUrl(url) == RestoreRecord(url)

\* readFileSync and JSON.parse throw on a missing or corrupt file: null
readRestoreUrl(file) ==
  IF file.state = "json" /\ file.isString THEN Str(file.restoreUrl) ELSE Null

\* fs.unlinkSync, its error swallowed
clearRestoreUrl == NoFile

\* relaunch-token.json: whether the file is there, and whether its text is
\* JSON with a string token and a number ts ("json"), JSON whose token is not
\* a string or whose ts is not a number, or no JSON at all (or unreadable)
NoToken == [present |-> FALSE, form |-> "json", age |-> 0, allowedLaunches |-> 0]
Token(age, n) ==
  [present |-> TRUE, form |-> "json", age |-> age, allowedLaunches |-> n]
CorruptToken == [NoToken EXCEPT !.present = TRUE, !.form = "corrupt"]
BadTokenField == [NoToken EXCEPT !.present = TRUE, !.form = "badToken"]
BadTsField == [NoToken EXCEPT !.present = TRUE, !.form = "badTs"]
MalformedTokens == {CorruptToken, BadTokenField, BadTsField}

\* a bug: every file that parses is returned, whatever its fields hold
readRelaunchToken_AnyJson(file) ==
  IF file.present /\ file.form # "corrupt" THEN file ELSE NoToken

\* readFileSync and JSON.parse in a try whose catch returns null; null too
\* unless token is a string and ts a number.  NoToken stands for null.
readRelaunchToken(file) ==
  IF file.present /\ file.form = "json" THEN file ELSE NoToken

RELAUNCH_GRACE_MS == 6000
ExitDelayMs == 600

\* a bug: a token that has no launches left is never stale
TokenIsStale_OnlyWithLaunchesLeft(file) ==
  file.age > RELAUNCH_GRACE_MS /\ file.allowedLaunches > 0

\* age > RELAUNCH_GRACE_MS, age being Date.now() - info.ts
TokenIsStale(file) == file.age > RELAUNCH_GRACE_MS

\* a bug: the rewritten token is stamped with the time of the rewrite
RewrittenToken_FreshTs(info) == Token(0, info.allowedLaunches - 1)

\* {...info, allowedLaunches: info.allowedLaunches - 1}: ts is copied
RewrittenToken(info) == Token(info.age, info.allowedLaunches - 1)

\* a bug: the launch is let through and the count is written back as it was
consumeOneAllowedLaunchIfPresent_NoDecrement(file) ==
  LET info == readRelaunchToken(file)
  IN  IF ~info.present THEN [consumed |-> FALSE, file |-> file]
      ELSE IF TokenIsStale(info) THEN [consumed |-> FALSE, file |-> NoToken]
      ELSE IF info.allowedLaunches <= 0 THEN [consumed |-> FALSE, file |-> file]
      ELSE [consumed |-> TRUE, file |-> file]

\* what it returns and what it leaves on disk: the token is rewritten with one
\* launch less and its ts kept
consumeOneAllowedLaunchIfPresent(file) ==
  LET info == readRelaunchToken(file)
  IN  IF ~info.present THEN [consumed |-> FALSE, file |-> file]
      ELSE IF TokenIsStale(info) THEN [consumed |-> FALSE, file |-> NoToken]
      ELSE IF info.allowedLaunches <= 0 THEN [consumed |-> FALSE, file |-> file]
      ELSE [consumed |-> TRUE, file |-> RewrittenToken(info)]

\* what the startup gate of a launching Grok process does to the token file,
\* whether it blocks the launch, and the branch it took
shouldBlockThisLaunchDueToExitGate(file) ==
  LET info == readRelaunchToken(file)
  IN  IF ~info.present
        THEN [blocked |-> FALSE, file |-> file, outcome |-> "absent"]
      ELSE IF TokenIsStale(info)
        THEN [blocked |-> FALSE, file |-> NoToken, outcome |-> "stale"]
      ELSE IF info.allowedLaunches > 0
        THEN [blocked |-> FALSE,
              file |-> consumeOneAllowedLaunchIfPresent(file).file,
              outcome |-> "consumed"]
      ELSE [blocked |-> TRUE, file |-> file, outcome |-> "blocked"]

\* the gate exists in the Grok wrapper only
StartupGate(v, file) ==
  IF v = "grok" THEN shouldBlockThisLaunchDueToExitGate(file)
  ELSE [blocked |-> FALSE, file |-> file, outcome |-> "none"]

(***************************************************************************)
(* URLs a page or a restore record can hold in the lifecycle model.        *)
(***************************************************************************)
\* a page of the wrapped site other than its default origin
DeepUrl(v) == DefaultOrigin(v) \o "c"
\* the default origin over plain http
HttpUrl(v) == "http" \o SubSeq(DefaultOrigin(v), 6, Len(DefaultOrigin(v)))
EvilUrl == "https://evil.com/"

RestoreUrls(v) == {DefaultOrigin(v), DeepUrl(v), HttpUrl(v), EvilUrl, ""}

\* a page that is no page of the site
BlankUrl == "about:blank"
\* where a page may try to go
PageUrls(v) == {DefaultOrigin(v), DeepUrl(v), HttpUrl(v), EvilUrl, BlankUrl}
RestoreFiles(v) ==
  {NoFile, CorruptFile, NonStringRecord} \cup {RestoreRecord(u) : u \in RestoreUrls(v)}

(***************************************************************************)
(* Windows.                                                                *)
(***************************************************************************)
WindowIds == 1..MaxWindows

Unborn ==
  [state |-> "unborn",        \* "unborn", "alive", "destroyed"
   load |-> "pending",        \* the loadURL(startUrl) of createWindowOnce
   readyFired |-> FALSE,      \* ready-to-show was emitted
   visible |-> FALSE, focused |-> FALSE, minimized |-> FALSE,
   skipTaskbar |-> FALSE,
   closedHandler |-> FALSE,   \* win.on('closed') is registered
   clearOnFinish |-> FALSE,   \* once('did-finish-load', clearRestoreUrl) is armed
   clearOnFail |-> FALSE,     \* once('did-fail-load', clearRestoreUrl) is armed
   url |-> "",                \* webContents.getURL()
   startUrl |-> "",           \* what createWindowOnce loads
   seen |-> NoFile,           \* restore-state.json as createWindowOnce found it
   filtered |-> FALSE]        \* the network filter was there at new BrowserWindow

Alive(w) == windows[w].state = "alive"
LiveWindows == {w \in WindowIds : Alive(w)}

\* a window object that is gone: only what it was created with is kept
Destroyed(rec) ==
  [Unborn EXCEPT !.state = "destroyed", !.load = rec.load,
                 !.startUrl = rec.startUrl, !.seen = rec.seen,
                 !.filtered = rec.filtered]

NoKnown == [file |-> NoFile, launch |-> 0]

NoCall == [outcome |-> "none", inFlight |-> FALSE, liveWindow |-> FALSE]

ProcInit ==
  /\ win = 0
  /\ creatingPromise = "null"
  /\ isWindowCreationStarted = FALSE
  /\ networkLockdownInstalled = FALSE
  /\ filtersInstalled = 0
  /\ quittingFromGesture = FALSE
  /\ isRelaunching = FALSE
  /\ exitTimer = -1
  /\ windows = [w \in WindowIds |-> Unborn]
  /\ created = 0

\* a fresh process: the module-level lets of main.js
ProcReset ==
  /\ win' = 0
  /\ creatingPromise' = "null"
  /\ isWindowCreationStarted' = FALSE
  /\ networkLockdownInstalled' = FALSE
  /\ filtersInstalled' = 0
  /\ quittingFromGesture' = FALSE
  /\ isRelaunching' = FALSE
  /\ exitTimer' = -1
  /\ windows' = [w \in WindowIds |-> Unborn]
  /\ created' = 0

NoEvent == [kind |-> "none", url |-> "", result |-> FALSE]

\* no key event: what webContents hands to a before-input-event listener
NoInput ==
  [type |-> "none", key |-> "", control |-> FALSE, meta |-> FALSE,
   shift |-> FALSE]

\* the listener has not run
NoOutcome == [calls |-> <<"pending">>, prevented |-> FALSE]

\* no key is pressed
KeyIdle == keyInput = NoInput /\ sinceFocus = 0 /\ keyOutcome = NoOutcome

\* no startup gate ran in the step just taken
NoGate ==
  [outcome |-> "none", found |-> "none", age |-> -1, count |-> -1, left |-> -1,
   sinceGesture |-> -1]

Min(a, b) == IF a <= b THEN a ELSE b

\* the launches left in a token file, -1 when no token can be read from it
LaunchesLeft(file) ==
  IF readRelaunchToken(file).present THEN file.allowedLaunches ELSE -1

\* what a launch finds at the token's path
FoundOnDisk(file) == IF file.present THEN file.form ELSE "missing"

\* the record of a startup gate run that found `file` and answered `g`
GateRun(file, g) ==
  [outcome |-> g.outcome,
   found |-> FoundOnDisk(file),
   age |-> IF readRelaunchToken(file).present THEN file.age ELSE -1,
   count |-> LaunchesLeft(file),
   left |-> LaunchesLeft(g.file),
   sinceGesture |-> gestureAge]

\* the gesture's age is followed while a token that can be read is on disk
GestureAgeOver(file) == IF readRelaunchToken(file).present THEN gestureAge ELSE -1

\* launches let through on account of the token, counted up to MaxPasses
PassesAfter(g) ==
  IF g.outcome = "consumed" THEN Min(tokenPasses + 1, MaxPasses) ELSE tokenPasses

\* no second-instance handler ran in the step just taken
NoSecond == [branch |-> "none"]

\* the record of a second-instance handler run that took `branch`
HandlerRun(branch) == [branch |-> branch]

\* a step in which no startup gate and no second-instance handler runs
Quiet == lastGate' = NoGate /\ lastSecond' = NoSecond /\ UNCHANGED tokenPasses

(***************************************************************************)
(* createWindowOnce.                                                       *)
(***************************************************************************)
\* a bug: an existing window counts only once it is shown
CanFocusExisting_OnlyVisible ==
  win # 0 /\ windows[win].state = "alive" /\ windows[win].visible

\* focusExistingWindow() returns true: win is set and not destroyed
CanFocusExisting == win # 0 /\ windows[win].state = "alive"

\* a bug: the window is focused but a hidden one is not shown
BroughtForward_NoShow(rec) == [rec EXCEPT !.minimized = FALSE, !.focused = TRUE]

\* restore() if minimized, show(), focus(); Lumo also puts the taskbar entry back
BroughtForward(rec) ==
  [rec EXCEPT !.minimized = FALSE, !.visible = TRUE, !.focused = TRUE,
              !.skipTaskbar = FALSE]

\* show() and focus() of the ready-to-show handler
Shown(rec) ==
  [rec EXCEPT !.visible = TRUE, !.focused = TRUE, !.skipTaskbar = FALSE]

\* a bug that trusts the stored URL
StartUrlChoice_Trusting(v, restoreUrl) ==
  IF Truthy(restoreUrl) THEN restoreUrl.value ELSE DefaultOrigin(v)

\* restoreUrl && isAllowed(restoreUrl) ? restoreUrl : default origin
StartUrlChoice(v, restoreUrl) ==
  IF Truthy(restoreUrl) /\ isAllowed(v, restoreUrl.value)
    THEN restoreUrl.value
    ELSE DefaultOrigin(v)

\* new BrowserWindow({show: false, ...}) and the handlers registered before loadURL
NewWindow(v, file) ==
  LET startUrl == StartUrlChoice(v, readRestoreUrl(file))
  IN  [Unborn EXCEPT !.state = "alive",
                     !.clearOnFinish = (startUrl # DefaultOrigin(v)),
                     !.clearOnFail = (startUrl # DefaultOrigin(v)),
                     !.startUrl = startUrl,
                     !.seen = file]

CallReturning(o) ==
  [outcome |-> o, inFlight |-> (creatingPromise = "pending"),
   liveWindow |-> (LiveWindows # {})]

\* a bug: the filter is registered again by every creation
installNetworkLockdownOnce_Unguarded(installed, count) ==
  [installed |-> TRUE, count |-> count + 1]

\* if (networkLockdownInstalled) return; networkLockdownInstalled = true;
\* session.defaultSession.webRequest.onBeforeRequest(...): the flag after the
\* call and the number of registrations made so far
installNetworkLockdownOnce(installed, count) ==
  [installed |-> TRUE, count |-> IF installed THEN count ELSE count + 1]

\* The synchronous part of a createWindowOnce() call: it returns the existing
\* window, or the promise in flight, or runs the creation up to its await.
createWindowOnce ==
  IF CanFocusExisting
    THEN /\ windows' = [windows EXCEPT ![win] = BroughtForward(@)]
         /\ lastCall' = CallReturning("window")
         /\ UNCHANGED <<win, creatingPromise, isWindowCreationStarted,
                        networkLockdownInstalled, filtersInstalled, created>>
  ELSE IF creatingPromise # "null" \/ (variant = "grok" /\ isWindowCreationStarted)
    THEN /\ lastCall' = CallReturning("promise")
         /\ UNCHANGED <<win, windows, creatingPromise, isWindowCreationStarted,
                        networkLockdownInstalled, filtersInstalled, created>>
  ELSE /\ created < MaxWindows
       /\ created' = created + 1
       /\ win' = created + 1
       /\ LET net == installNetworkLockdownOnce(networkLockdownInstalled,
                                                filtersInstalled)
          IN  /\ networkLockdownInstalled' = net.installed
              /\ filtersInstalled' = net.count
              /\ windows' = [windows EXCEPT ![created + 1] =
                   [NewWindow(variant, restoreFile)
                      EXCEPT !.filtered = net.installed]]
       /\ creatingPromise' = "pending"
       /\ isWindowCreationStarted' = (variant = "grok")
       /\ lastCall' = CallReturning("created")

(***************************************************************************)
(* Process start.                                                          *)
(***************************************************************************)
Running == app \in {"ready", "quitting"}

\* A launch while no process of the wrapper runs: the startup gate (Grok),
\* then the single-instance lock, which it gets.
Launch ==
  /\ app \in {"notStarted", "exited"}
  /\ launches < MaxLaunches
  /\ launches' = launches + 1
  /\ LET gate == StartupGate(variant, tokenFile)
     IN  /\ tokenFile' = gate.file
         /\ app' = IF gate.blocked THEN "exited" ELSE "starting"
         /\ lastGate' = IF variant = "grok" THEN GateRun(tokenFile, gate)
                        ELSE NoGate
         /\ tokenPasses' = PassesAfter(gate)
         /\ gestureAge' = GestureAgeOver(gate.file)
  /\ lastSecond' = NoSecond
  /\ ProcReset
  /\ lastCall' = NoCall
  /\ UNCHANGED <<variant, restoreFile, known, polVars, launchVars>>

\* app.whenReady().then(() => createWindowOnce())
AppReady ==
  /\ app = "starting"
  /\ app' = "ready"
  /\ createWindowOnce
  /\ UNCHANGED <<variant, quittingFromGesture, isRelaunching, exitTimer,
                 diskVars, launches, known, polVars, launchVars>>
  /\ Quiet
  /\ UNCHANGED gestureAge

\* app.on('activate', () => createWindowOnce())
Activate ==
  /\ Running
  /\ createWindowOnce
  /\ UNCHANGED <<variant, app, quittingFromGesture, isRelaunching, exitTimer,
                 diskVars, launches, known, polVars, launchVars>>
  /\ Quiet
  /\ UNCHANGED gestureAge

(***************************************************************************)
(* The second-instance handler.  A second launch of the wrapper fails to   *)
(* get the single-instance lock and quits; the running process gets a      *)
(* second-instance event.  In the Grok wrapper the launching process       *)
(* passes the startup gate first.                                          *)
(***************************************************************************)
\* a bug: a visible window counts as in front whether or not it has the focus
GestureCondition_AnyVisible ==
  /\ win # 0
  /\ windows[win].state = "alive"
  /\ windows[win].visible
  /\ ~windows[win].minimized

\* win && !win.isDestroyed() && win.isVisible() && win.isFocused() && !win.isMinimized()
GestureCondition ==
  /\ win # 0
  /\ windows[win].state = "alive"
  /\ windows[win].visible
  /\ windows[win].focused
  /\ ~windows[win].minimized

\* a bug: whatever URL the window shows is returned
safeGetCurrentUrl_Unchecked ==
  IF win = 0 \/ windows[win].state # "alive" \/ windows[win].url = "" THEN Null
  ELSE Str(windows[win].url)

\* win.webContents.getURL() in a try: null when there is no window, when the
\* URL is empty and when isAllowed rejects it
safeGetCurrentUrl ==
  IF win = 0 \/ windows[win].state # "alive" THEN Null
  ELSE LET url == windows[win].url
       IN  IF url = "" \/ ~isAllowed(variant, url) THEN Null ELSE Str(url)

\* const url = safeGetCurrentUrl(); if (url) writeRestoreUrl(url);
SaveCurrentUrl ==
  LET url == safeGetCurrentUrl
  IN  /\ restoreFile' = IF Truthy(url) THEN writeRestoreUrl(url.value) ELSE restoreFile
      /\ known' = IF Truthy(url) THEN NoKnown ELSE known

\* a bug: the handler does not look at the flag
GestureGuard_Absent(flag) == FALSE

\* if (quittingFromGesture) return; and if (isRelaunching) return; the flag is
\* set by the first gesture and never reset
GestureGuard(flag) == flag

\* Claude and ChatGPT: save the URL and quit
SecondInstanceQuit ==
  /\ variant \in {"claude", "chatgpt"}
  /\ Running
  /\ IF GestureGuard(quittingFromGesture)
       THEN /\ lastSecond' = HandlerRun("ignored")
            /\ UNCHANGED <<procVars, restoreFile, known, lastCall>>
     ELSE IF GestureCondition
       THEN /\ lastSecond' = HandlerRun("gesture")
            /\ SaveCurrentUrl
            /\ quittingFromGesture' = TRUE
            /\ app' = "quitting"
            /\ UNCHANGED <<win, creatingPromise, isWindowCreationStarted,
                           networkLockdownInstalled, filtersInstalled, isRelaunching, exitTimer,
                           windows, created, lastCall>>
     ELSE /\ lastSecond' = HandlerRun("forward")
          /\ createWindowOnce
          /\ UNCHANGED <<app, quittingFromGesture, isRelaunching, exitTimer,
                         restoreFile, known>>
  /\ lastGate' = NoGate
  /\ UNCHANGED <<variant, tokenFile, launches, polVars, tokenPasses, gestureAge,
                 launchVars>>

\* Grok: saveUrlAndExitWithGate, behind the launching process's startup gate
SecondInstanceGate ==
  /\ variant = "grok"
  /\ Running
  /\ LET gate == StartupGate(variant, tokenFile)
         ran == GateRun(tokenFile, gate)
     IN  IF gate.blocked
           THEN /\ tokenFile' = gate.file
                /\ lastGate' = ran
                /\ lastSecond' = NoSecond
                /\ UNCHANGED <<procVars, restoreFile, known, lastCall, tokenPasses,
                               gestureAge>>
         ELSE IF GestureCondition
           THEN IF GestureGuard(isRelaunching)
                  THEN /\ tokenFile' = gate.file
                       /\ lastGate' = ran
                       /\ tokenPasses' = PassesAfter(gate)
                       /\ lastSecond' = HandlerRun("ignored")
                       /\ gestureAge' = GestureAgeOver(gate.file)
                       /\ UNCHANGED <<procVars, restoreFile, known, lastCall>>
                  ELSE /\ isRelaunching' = TRUE
                       /\ SaveCurrentUrl
                       /\ tokenFile' = Token(0, 1)
                       /\ lastGate' = ran
                       /\ tokenPasses' = 0
                       /\ gestureAge' = 0
                       /\ lastSecond' = HandlerRun("gesture")
                       /\ exitTimer' = ExitDelayMs
                       /\ UNCHANGED <<app, win, creatingPromise,
                                      isWindowCreationStarted,
                                      networkLockdownInstalled, filtersInstalled,
                                      quittingFromGesture, windows, created,
                                      lastCall>>
         ELSE /\ tokenFile' = gate.file
              /\ lastGate' = ran
              /\ tokenPasses' = PassesAfter(gate)
              /\ lastSecond' = HandlerRun("forward")
              /\ gestureAge' = GestureAgeOver(gate.file)
              /\ createWindowOnce
              /\ UNCHANGED <<app, quittingFromGesture, isRelaunching, exitTimer,
                             restoreFile, known>>
  /\ UNCHANGED <<variant, launches, polVars, launchVars>>

\* Lumo: save the URL and hide the window
SecondInstanceHide ==
  /\ variant = "lumo"
  /\ Running
  /\ IF GestureCondition
       THEN /\ lastSecond' = HandlerRun("gesture")
            /\ SaveCurrentUrl
            /\ windows' = [windows EXCEPT ![win] =
                             [@ EXCEPT !.skipTaskbar = TRUE, !.visible = FALSE,
                                       !.focused = FALSE]]
            /\ UNCHANGED <<app, win, creatingPromise, isWindowCreationStarted,
                           networkLockdownInstalled, filtersInstalled, quittingFromGesture,
                           isRelaunching, exitTimer, created, lastCall>>
     ELSE /\ lastSecond' = HandlerRun("forward")
          /\ createWindowOnce
          /\ UNCHANGED <<app, quittingFromGesture, isRelaunching, exitTimer,
                         restoreFile, known>>
  /\ lastGate' = NoGate
  /\ UNCHANGED <<variant, tokenFile, launches, polVars, tokenPasses, gestureAge,
                 launchVars>>

(***************************************************************************)
(* Window events.                                                          *)
(***************************************************************************)
UsedRecord(rec) == rec.seen.state = "json" /\ rec.seen.isString

\* the record whose outcome is now known: the first window's, when it found one
KnownAfter(w) ==
  IF w = 1 /\ UsedRecord(windows[w])
    THEN [file |-> windows[w].seen, launch |-> launches]
    ELSE known

\* win.once('ready-to-show', ...): the handler reads the global win
ReadyToShow(w) ==
  /\ Running
  /\ Alive(w)
  /\ ~windows[w].readyFired
  /\ LET fired == [windows EXCEPT ![w] = [@ EXCEPT !.readyFired = TRUE]]
     IN  IF win = 0 \/ windows[win].state # "alive"
           THEN /\ windows' = fired
                /\ UNCHANGED tokenFile
           ELSE /\ windows' = [fired EXCEPT ![win] = Shown(@)]
                /\ tokenFile' = IF variant = "grok" THEN NoToken ELSE tokenFile
  /\ gestureAge' = GestureAgeOver(tokenFile')
  /\ UNCHANGED <<variant, app, win, creatingPromise, isWindowCreationStarted,
                 networkLockdownInstalled, filtersInstalled, quittingFromGesture, isRelaunching,
                 exitTimer, created, restoreFile, obsVars, polVars, launchVars>>
  /\ Quiet

\* did-finish-load of the initial load: the once-handler runs, loadURL
\* resolves, and createWindowOnce registers 'closed' on win and resolves
DidFinishLoad(w) ==
  /\ Running
  /\ Alive(w)
  /\ windows[w].load = "pending"
  /\ LET loaded == [windows EXCEPT ![w] =
                      [@ EXCEPT !.load = "finished", !.url = windows[w].startUrl,
                                !.clearOnFinish = FALSE]]
     IN  windows' = IF win = 0 THEN loaded
                    ELSE [loaded EXCEPT ![win] = [@ EXCEPT !.closedHandler = TRUE]]
  /\ restoreFile' = IF windows[w].clearOnFinish THEN clearRestoreUrl ELSE restoreFile
  /\ creatingPromise' = IF creatingPromise = "pending" THEN "resolved"
                        ELSE creatingPromise
  /\ known' = KnownAfter(w)
  /\ UNCHANGED <<variant, app, win, isWindowCreationStarted,
                 networkLockdownInstalled, filtersInstalled, quittingFromGesture, isRelaunching,
                 exitTimer, created, tokenFile, launches, lastCall, polVars, launchVars>>
  /\ Quiet
  /\ UNCHANGED gestureAge

\* a bug: the catch rethrows and leaves the creation state as it is
CreationFailed_KeepsState ==
  [promise |-> "rejected", started |-> isWindowCreationStarted]

\* catch (e) { creatingPromise = null; isWindowCreationStarted = false; throw e; }
\* (the flag in Grok only, where nothing else sets it)
CreationFailed == [promise |-> "null", started |-> FALSE]

\* did-fail-load of the initial load: the once-handler runs, loadURL rejects,
\* and the catch of createWindowOnce clears the creation state
DidFailLoad(w, shownUrl) ==
  /\ Running
  /\ Alive(w)
  /\ windows[w].load = "pending"
  /\ shownUrl \in {"", windows[w].startUrl}
  /\ windows' = [windows EXCEPT ![w] =
                   [@ EXCEPT !.load = "failed", !.url = shownUrl,
                             !.clearOnFail = FALSE]]
  /\ restoreFile' = IF windows[w].clearOnFail THEN clearRestoreUrl ELSE restoreFile
  /\ creatingPromise' = CreationFailed.promise
  /\ isWindowCreationStarted' = CreationFailed.started
  /\ known' = KnownAfter(w)
  /\ UNCHANGED <<variant, app, win, networkLockdownInstalled, filtersInstalled,
                 quittingFromGesture, isRelaunching, exitTimer, created,
                 tokenFile, launches, lastCall, polVars, launchVars>>
  /\ Quiet
  /\ UNCHANGED gestureAge

\* a bug: closing the window leaves the restore file alone in every wrapper
closeHandler_Absent(v, file) == file

\* Lumo: win.on('close', () => { clearRestoreUrl(); }), registered when the
\* window is made; the other wrappers have no 'close' handler
closeHandler(v, file) == IF v = "lumo" THEN clearRestoreUrl ELSE file

\* The user closes the window (the window manager, or Ctrl+W in Claude,
\* ChatGPT and Grok).  'closed' clears the state only if it was registered;
\* the loadURL promise of a window destroyed while loading either never
\* settles or rejects.  window-all-closed then calls app.quit().
CloseWindow(w, settle) ==
  /\ app = "ready"
  /\ Alive(w)
  /\ settle \in {"never", "rejected"}
  /\ settle = "rejected" => windows[w].load = "pending"
  /\ LET handled == windows[w].closedHandler
         rejected == settle = "rejected"
     IN  /\ windows' = [windows EXCEPT ![w] =
              Destroyed([@ EXCEPT !.load = IF rejected THEN "failed" ELSE @])]
         /\ win' = IF handled THEN 0 ELSE win
         /\ creatingPromise' = IF handled THEN "null"
                               ELSE IF rejected THEN CreationFailed.promise
                               ELSE creatingPromise
         /\ isWindowCreationStarted' =
              IF handled THEN FALSE
              ELSE IF rejected THEN CreationFailed.started
              ELSE isWindowCreationStarted
  /\ restoreFile' = closeHandler(variant, restoreFile)
  /\ app' = IF LiveWindows \ {w} = {} THEN "quitting" ELSE app
  /\ UNCHANGED <<variant, networkLockdownInstalled, filtersInstalled, quittingFromGesture,
                 isRelaunching, exitTimer, created, tokenFile, obsVars,
                 polVars, launchVars>>
  /\ Quiet
  /\ UNCHANGED gestureAge

\* Ctrl+Q in the focused window (in Lumo Ctrl+W too, and only in the window
\* win points at): app.quit(), in Lumo after clearRestoreUrl().  Lumo lets
\* the key pass within 250 ms of the window's focus event: nothing happens.
QuitShortcut(w) ==
  /\ app = "ready"
  /\ Alive(w)
  /\ windows[w].visible
  /\ windows[w].focused
  /\ variant = "lumo" => w = win
  /\ restoreFile' = IF variant = "lumo" THEN clearRestoreUrl ELSE restoreFile
  /\ app' = "quitting"
  /\ UNCHANGED <<variant, win, creatingPromise, isWindowCreationStarted,
                 networkLockdownInstalled, filtersInstalled, quittingFromGesture,
                 isRelaunching, exitTimer, windows, created, tokenFile, obsVars,
                 polVars, launchVars>>
  /\ Quiet
  /\ UNCHANGED gestureAge

\* the user or the window manager takes the focus away
Blur(w) ==
  /\ app = "ready"
  /\ Alive(w)
  /\ windows[w].focused
  /\ windows' = [windows EXCEPT ![w] = [@ EXCEPT !.focused = FALSE]]
  /\ UNCHANGED <<variant, app, win, creatingPromise, isWindowCreationStarted,
                 networkLockdownInstalled, filtersInstalled, quittingFromGesture, isRelaunching,
                 exitTimer, created, diskVars, obsVars, polVars, launchVars>>
  /\ Quiet
  /\ UNCHANGED gestureAge

\* the user clicks the window, or its taskbar entry
UserFocus(w) ==
  /\ app = "ready"
  /\ Alive(w)
  /\ windows[w].visible
  /\ ~windows[w].focused
  /\ windows' = [windows EXCEPT ![w] =
                   [@ EXCEPT !.focused = TRUE, !.minimized = FALSE]]
  /\ UNCHANGED <<variant, app, win, creatingPromise, isWindowCreationStarted,
                 networkLockdownInstalled, filtersInstalled, quittingFromGesture, isRelaunching,
                 exitTimer, created, diskVars, obsVars, polVars, launchVars>>
  /\ Quiet
  /\ UNCHANGED gestureAge

Minimize(w) ==
  /\ app = "ready"
  /\ Alive(w)
  /\ windows[w].visible
  /\ windows[w].readyFired
  /\ ~windows[w].minimized
  /\ windows' = [windows EXCEPT ![w] =
                   [@ EXCEPT !.minimized = TRUE, !.focused = FALSE]]
  /\ UNCHANGED <<variant, app, win, creatingPromise, isWindowCreationStarted,
                 networkLockdownInstalled, filtersInstalled, quittingFromGesture, isRelaunching,
                 exitTimer, created, diskVars, obsVars, polVars, launchVars>>
  /\ Quiet
  /\ UNCHANGED gestureAge

\* the page moves to another URL: will-navigate and the network filter let it
PageNavigate(w, u) ==
  /\ app = "ready"
  /\ Alive(w)
  /\ windows[w].load = "finished"
  /\ u # windows[w].url
  /\ ~shouldOpenExternally(variant, u)
  /\ ~onBeforeRequestCancel(variant, u)
  /\ windows' = [windows EXCEPT ![w] = [@ EXCEPT !.url = u]]
  /\ UNCHANGED <<variant, app, win, creatingPromise, isWindowCreationStarted,
                 networkLockdownInstalled, filtersInstalled, quittingFromGesture, isRelaunching,
                 exitTimer, created, diskVars, obsVars, polVars, launchVars>>
  /\ Quiet
  /\ UNCHANGED gestureAge

(***************************************************************************)
(* Process end and the clock.                                              *)
(***************************************************************************)
\* app.quit() runs to its end: the windows left are closed (Lumo's 'close'
\* handler clears the restore file) and the process is gone
FinishQuit ==
  /\ app = "quitting"
  /\ app' = "exited"
  /\ restoreFile' = IF LiveWindows # {} THEN closeHandler(variant, restoreFile)
                    ELSE restoreFile
  /\ ProcReset
  /\ UNCHANGED <<variant, tokenFile, obsVars, polVars, launchVars>>
  /\ Quiet
  /\ UNCHANGED gestureAge

\* setTimeout(() => app.exit(0), 600) of saveUrlAndExitWithGate
ExitTimerFires ==
  /\ Running
  /\ exitTimer = 0
  /\ app' = "exited"
  /\ ProcReset
  /\ UNCHANGED <<variant, diskVars, obsVars, polVars, launchVars>>
  /\ Quiet
  /\ UNCHANGED gestureAge

TimeSteps == {ExitDelayMs, RELAUNCH_GRACE_MS}

Max(a, b) == IF a >= b THEN a ELSE b

\* d milliseconds pass: the token on disk ages and the exit timer runs down;
\* nothing else reads the clock.  The clock is followed to the two moments
\* the code tells apart: the exit timer's end and the grace window's end.
Tick(d) ==
  /\ \/ d = ExitDelayMs /\ exitTimer > 0
     \/ d = RELAUNCH_GRACE_MS /\ readRelaunchToken(tokenFile).present
                              /\ tokenFile.age <= RELAUNCH_GRACE_MS
  /\ readRelaunchToken(tokenFile).present => tokenFile.age + d <= MaxAge
  /\ tokenFile' = IF readRelaunchToken(tokenFile).present
                    THEN [tokenFile EXCEPT !.age = @ + d] ELSE tokenFile
  /\ exitTimer' = IF exitTimer > 0 THEN Max(0, exitTimer - d) ELSE exitTimer
  /\ UNCHANGED <<variant, app, win, creatingPromise, isWindowCreationStarted,
                 networkLockdownInstalled, filtersInstalled, quittingFromGesture, isRelaunching,
                 windows, created, restoreFile, obsVars, polVars, launchVars>>
  /\ gestureAge' = IF gestureAge >= 0 THEN Min(gestureAge + d, MaxAge) ELSE -1
  /\ Quiet

(***************************************************************************)
(* The processes of one wrapper identity, before any is launched.          *)
(***************************************************************************)
Pids == 1..MaxProcs

NotLaunched ==
  [pc |-> "notLaunched",   \* where the process is in main.js
   info |-> NoToken,       \* const info = readRelaunchToken()
   through |-> "none",     \* how it left the startup gate, or "lockFailed"
   window |-> "none"]      \* its BrowserWindow: "none", "loading", "ready", "hidden"

\* no persisted file was changed yet
NoWrite == [file |-> "none", pid |-> 0, heldLock |-> FALSE]

LaunchIdle ==
  /\ procs = [p \in Pids |-> NotLaunched]
  /\ lock = 0
  /\ signals = 0
  /\ lastWrite = NoWrite
  /\ readySince = FALSE

(***************************************************************************)
(* The lifecycle specification.                                            *)
(***************************************************************************)
Init ==
  /\ variant \in Variants
  /\ app = "notStarted"
  /\ ProcInit
  /\ restoreFile \in RestoreFiles(variant)
  /\ tokenFile \in IF variant = "grok" THEN {NoToken} \cup MalformedTokens
                   ELSE {NoToken}
  /\ launches = 0
  /\ lastCall = NoCall
  /\ known = NoKnown
  /\ polInput = ""
  /\ isTTY = FALSE
  /\ polEvent = NoEvent
  /\ polPrev = "none"
  /\ polAction = "none"
  /\ KeyIdle
  /\ lastGate = NoGate
  /\ lastSecond = NoSecond
  /\ tokenPasses = 0
  /\ gestureAge = -1
  /\ LaunchIdle

Next ==
  \/ Launch
  \/ AppReady
  \/ Activate
  \/ SecondInstanceQuit
  \/ SecondInstanceGate
  \/ SecondInstanceHide
  \/ \E w \in WindowIds : ReadyToShow(w)
  \/ \E w \in WindowIds : DidFinishLoad(w)
  \/ \E w \in WindowIds, shownUrl \in RestoreUrls(variant) : DidFailLoad(w, shownUrl)
  \/ \E w \in WindowIds, settle \in {"never", "rejected"} : CloseWindow(w, settle)
  \/ \E w \in WindowIds : QuitShortcut(w)
  \/ \E w \in WindowIds : Blur(w)
  \/ \E w \in WindowIds : UserFocus(w)
  \/ \E w \in WindowIds : Minimize(w)
  \/ \E w \in WindowIds, u \in PageUrls(variant) : PageNavigate(w, u)
  \/ FinishQuit
  \/ ExitTimerFires
  \/ \E d \in TimeSteps : Tick(d)

Spec == Init /\ [][Next]_vars

(***************************************************************************)
(* The policy specification: the domain policy and the network filter      *)
(* applied to URLs drawn from a bounded set, in a process whose first      *)
(* window is loading (so the filter is installed).                         *)
(***************************************************************************)
HostChars == {"e", "."}

RECURSIVE PrefixesUpTo(_)
PrefixesUpTo(n) ==
  IF n = 0 THEN {""}
  ELSE LET shorter == PrefixesUpTo(n - 1)
       IN  shorter \cup {p \o c : p \in shorter, c \in HostChars}

\* a host name whose labels are not empty (one trailing dot is a root label)
NoEmptyLabel(h) ==
  /\ h # ""
  /\ Ch(h, 1) # "."
  /\ \A i \in 1..(Len(h) - 1) : ~(Ch(h, i) = "." /\ Ch(h, i + 1) = ".")

HostForms(a) ==
  {h \in {p \o a : p \in PrefixesUpTo(MaxPrefixLen)} : NoEmptyLabel(h)}
    \cup {"evil" \o a, a \o "m", a \o ".", a \o ".e", toUpperCase(a), "E." \o a}

OtherHost == "evil.com"

TestHosts(v) == UNION {HostForms(a) : a \in ALLOWED_HOSTS(v) \cup {OtherHost}}

HttpsForms(h) ==
  {"https://" \o h \o "/", "https://" \o h, "HTTPS://" \o h \o "/a/b"}

DefaultHost(v) == ParseURL(DefaultOrigin(v)).hostname

OtherPrefixes ==
  {"http://", "HTTP://", "ws://", "wss://", "ftp://", "file://", "devtools://",
   "chrome-extension://", "", "//", "://", "https//", "https:", "https:/"}

OtherUrls(v) ==
  {p \o h \o t : p \in OtherPrefixes, h \in {DefaultHost(v), OtherHost},
                 t \in {"", "/"}}
    \cup {"https://" \o h \o ":x/" : h \in {DefaultHost(v), OtherHost}}
    \cup {"", ":", "https://", "https:///", "about:blank", "file:///etc/passwd"}

TestUrls(v) == UNION {HttpsForms(h) : h \in TestHosts(v)} \cup OtherUrls(v)

\* the sets, computed once
TestHostsOf == [v \in Variants |-> TestHosts(v)]
TestUrlsOf == [v \in Variants |-> TestUrls(v)]

Answered(event) == IF event.result THEN "cancelled" ELSE "passed"

\* requests that may come before the one looked at: allowed, disallowed, malformed
EarlierUrls(v) == {DefaultOrigin(v), EvilUrl, "//"}

\* some code calls isAllowed on the URL
CallIsAllowed ==
  /\ polEvent' = [kind |-> "isAllowed", url |-> polInput,
                  result |-> isAllowed(variant, polInput)]
  /\ polAction' = "none"
  /\ UNCHANGED <<variant, procVars, diskVars, obsVars, polInput, isTTY, polPrev, keyVars,
                 histVars, launchVars>>

\* will-navigate or will-redirect calls shouldOpenExternally on the URL
CallShouldOpenExternally ==
  /\ polEvent' = [kind |-> "shouldOpenExternally", url |-> polInput,
                  result |-> shouldOpenExternally(variant, polInput)]
  /\ polAction' = "none"
  /\ UNCHANGED <<variant, procVars, diskVars, obsVars, polInput, isTTY, polPrev, keyVars,
                 histVars, launchVars>>

\* page content asks for a new window at the URL
CallWindowOpen ==
  /\ Alive(win)
  /\ LET answer == windowOpenHandler(polInput)
     IN  /\ polEvent' = [kind |-> "windowOpen", url |-> polInput,
                         result |-> answer.external]
         /\ polAction' = answer.action
  /\ UNCHANGED <<variant, procVars, diskVars, obsVars, polInput, isTTY, polPrev, keyVars,
                 histVars, launchVars>>

\* the will-navigate and will-redirect handlers:
\* if (shouldOpenExternally(url)) { e.preventDefault(); shell.openExternal(url); }
navigationHandler(v, url) ==
  LET out == shouldOpenExternally(v, url)
  IN  [prevented |-> out, external |-> out]

\* the page of the window navigates or is redirected to the URL
WillNavigate ==
  /\ Alive(win)
  /\ LET answer == navigationHandler(variant, polInput)
     IN  /\ polEvent' = [kind |-> "navigate", url |-> polInput,
                         result |-> answer.prevented]
         /\ polAction' = IF answer.external THEN "external" ELSE "none"
  /\ UNCHANGED <<variant, procVars, diskVars, obsVars, polInput, isTTY, polPrev, keyVars,
                 histVars, launchVars>>

\* the session asks the installed filter about a request
onBeforeRequest(u) ==
  /\ networkLockdownInstalled
  /\ polEvent' = [kind |-> "request", url |-> u,
                  result |-> onBeforeRequestCancel(variant, u)]
  /\ polPrev' = IF polEvent.kind = "request" THEN Answered(polEvent) ELSE polPrev
  /\ polAction' = IF onBeforeRequestLogs(variant, isTTY, u) THEN "logged"
                  ELSE "none"
  /\ UNCHANGED <<variant, procVars, diskVars, obsVars, polInput, isTTY, keyVars, histVars,
                 launchVars>>

\* the process right after its first createWindowOnce, nothing on disk
PolicyInit ==
  /\ variant \in Variants
  /\ app = "ready"
  /\ win = 1
  /\ creatingPromise = "pending"
  /\ isWindowCreationStarted = (variant = "grok")
  /\ networkLockdownInstalled = TRUE
  /\ filtersInstalled = 1
  /\ quittingFromGesture = FALSE
  /\ isRelaunching = FALSE
  /\ exitTimer = -1
  /\ windows = [w \in WindowIds |->
                  IF w = 1 THEN [NewWindow(variant, NoFile) EXCEPT !.filtered = TRUE]
                  ELSE Unborn]
  /\ created = 1
  /\ restoreFile = NoFile
  /\ tokenFile = NoToken
  /\ launches = 1
  /\ lastCall = [outcome |-> "created", inFlight |-> FALSE, liveWindow |-> FALSE]
  /\ known = NoKnown
  /\ polInput \in TestUrlsOf[variant]
  /\ isTTY \in BOOLEAN
  /\ polEvent = NoEvent
  /\ polPrev = "none"
  /\ polAction = "none"
  /\ KeyIdle
  /\ lastGate = NoGate
  /\ lastSecond = NoSecond
  /\ tokenPasses = 0
  /\ gestureAge = -1
  /\ LaunchIdle

PolicyNext ==
  \/ CallIsAllowed
  \/ CallShouldOpenExternally
  \/ CallWindowOpen
  \/ WillNavigate
  \/ \E u \in {polInput} \cup EarlierUrls(variant) : onBeforeRequest(u)

PolicySpec == PolicyInit /\ [][PolicyNext]_vars

(***************************************************************************)
(* The key specification: the before-input-event listener of the window    *)
(* on bounded key events.                                                  *)
(***************************************************************************)
\* input.key of the events looked at
Keys == {"q", "w", "r", "R", "i", "I", "F11", "a"}

KeyInputs ==
  [type : {"keyDown", "keyUp"}, key : Keys, control : BOOLEAN,
   meta : BOOLEAN, shift : BOOLEAN]

\* Lumo: the time after a focus event in which Ctrl+W and Ctrl+Q are let pass
FocusBleedMs == 250

\* const ctrlOrCmd = !!(input.control || input.meta);
ctrlOrCmd(input) == input.control \/ input.meta

\* the chain of ifs of the listener: the calls made for the event, <<>> when
\* no test matches; the calls of the quit and the close shortcut differ
\* between the wrappers
shortcutCalls(input, onQuit, onClose) ==
  LET key == toLowerCase(input.key)
  IN  IF ctrlOrCmd(input) /\ key = "q" THEN onQuit
      ELSE IF ctrlOrCmd(input) /\ key = "w" THEN onClose
      ELSE IF ctrlOrCmd(input) /\ ~input.shift /\ key = "r" THEN <<"reload">>
      ELSE IF ctrlOrCmd(input) /\ input.shift /\ key = "r"
        THEN <<"reloadIgnoringCache">>
      ELSE IF ctrlOrCmd(input) /\ input.shift /\ key = "i"
        THEN <<"toggleDevTools">>
      ELSE IF input.key = "F11" THEN <<"setFullScreen">>
      ELSE <<>>

\* every branch that matches calls event.preventDefault() first
Handled(calls) == [calls |-> calls, prevented |-> calls # <<>>]

\* Claude, ChatGPT and Grok: the listener of registerWindowShortcuts(w)
registerWindowShortcuts(input) ==
  Handled(shortcutCalls(input, <<"app.quit">>, <<"w.close">>))

\* Lumo: the listener registered in createWindowOnce; it returns at once for
\* a key-up, when the focused window is not win, and for Ctrl+W / Ctrl+Q
\* within FocusBleedMs of the focus event
lumoBeforeInputEvent(input, focusedIsWin, msSinceFocus) ==
  IF input.type # "keyDown" THEN Handled(<<>>)
  ELSE IF ~focusedIsWin THEN Handled(<<>>)
  ELSE IF /\ ctrlOrCmd(input)
          /\ toLowerCase(input.key) \in {"w", "q"}
          /\ msSinceFocus >= 0 /\ msSinceFocus < FocusBleedMs
    THEN Handled(<<>>)
  ELSE Handled(shortcutCalls(input, <<"clearRestoreUrl", "app.quit">>,
                                    <<"clearRestoreUrl", "app.quit">>))

beforeInputEvent(v, input, focusedIsWin, msSinceFocus) ==
  IF v = "lumo" THEN lumoBeforeInputEvent(input, focusedIsWin, msSinceFocus)
  ELSE registerWindowShortcuts(input)

Called(calls, name) == \E i \in 1..Len(calls) : calls[i] = name

\* the window's webContents gets the key event: the listener runs, and what
\* it called takes effect (w.close() destroys the window, whose 'closed'
\* handler clears the handle, and window-all-closed quits)
BeforeInputEvent ==
  /\ app = "ready"
  /\ Alive(win)
  /\ keyOutcome = NoOutcome
  /\ LET out == beforeInputEvent(variant, keyInput, windows[win].focused,
                                 sinceFocus)
         closes == Called(out.calls, "w.close")
     IN  /\ keyOutcome' = out
         /\ app' = IF closes \/ Called(out.calls, "app.quit") THEN "quitting"
                   ELSE app
         /\ restoreFile' = IF Called(out.calls, "clearRestoreUrl")
                             THEN clearRestoreUrl
                           ELSE IF closes THEN closeHandler(variant, restoreFile)
                           ELSE restoreFile
         /\ windows' = IF closes THEN [windows EXCEPT ![win] = Destroyed(@)]
                       ELSE windows
         /\ win' = IF closes THEN 0 ELSE win
         /\ creatingPromise' = IF closes THEN "null" ELSE creatingPromise
         /\ isWindowCreationStarted' =
              IF closes THEN FALSE ELSE isWindowCreationStarted
  /\ UNCHANGED <<variant, networkLockdownInstalled, filtersInstalled,
                 quittingFromGesture, isRelaunching, exitTimer, created,
                 tokenFile, obsVars, polInput, isTTY, polEvent, polPrev,
                 polAction, keyInput, sinceFocus, histVars, launchVars>>

\* the time since the focus event goes past FocusBleedMs before the key comes
KeyTick ==
  /\ keyOutcome = NoOutcome
  /\ sinceFocus < FocusBleedMs
  /\ sinceFocus' = FocusBleedMs
  /\ UNCHANGED <<variant, procVars, diskVars, obsVars, polInput, isTTY,
                 polEvent, polPrev, polAction, keyInput, keyOutcome, histVars,
                 launchVars>>

\* another window of the desktop takes the focus before the key comes
KeyBlur ==
  /\ keyOutcome = NoOutcome
  /\ Alive(win)
  /\ windows[win].focused
  /\ windows' = [windows EXCEPT ![win] = [@ EXCEPT !.focused = FALSE]]
  /\ UNCHANGED <<variant, app, win, creatingPromise, isWindowCreationStarted,
                 networkLockdownInstalled, filtersInstalled,
                 quittingFromGesture, isRelaunching, exitTimer, created,
                 diskVars, obsVars, polVars, histVars, launchVars>>

\* the window of the first createWindowOnce once it has loaded and is shown
LoadedWindow(v) ==
  [Shown(NewWindow(v, NoFile)) EXCEPT !.filtered = TRUE, !.load = "finished",
                                     !.readyFired = TRUE, !.closedHandler = TRUE,
                                     !.url = DefaultOrigin(v)]

\* the process with its window up and focused; in Lumo a hide gesture has
\* left a record behind
KeyInit ==
  /\ variant \in Variants
  /\ app = "ready"
  /\ win = 1
  /\ creatingPromise = "resolved"
  /\ isWindowCreationStarted = (variant = "grok")
  /\ networkLockdownInstalled = TRUE
  /\ filtersInstalled = 1
  /\ quittingFromGesture = FALSE
  /\ isRelaunching = FALSE
  /\ exitTimer = -1
  /\ windows = [w \in WindowIds |->
                  IF w = 1 THEN LoadedWindow(variant) ELSE Unborn]
  /\ created = 1
  /\ restoreFile = IF variant = "lumo" THEN RestoreRecord(DefaultOrigin(variant))
                   ELSE NoFile
  /\ tokenFile = NoToken
  /\ launches = 1
  /\ lastCall = [outcome |-> "created", inFlight |-> FALSE, liveWindow |-> FALSE]
  /\ known = NoKnown
  /\ polInput = ""
  /\ isTTY = FALSE
  /\ polEvent = NoEvent
  /\ polPrev = "none"
  /\ polAction = "none"
  /\ keyInput \in KeyInputs
  /\ sinceFocus = 0
  /\ keyOutcome = NoOutcome
  /\ lastGate = NoGate
  /\ lastSecond = NoSecond
  /\ tokenPasses = 0
  /\ gestureAge = -1
  /\ LaunchIdle

KeyNext ==
  \/ BeforeInputEvent
  \/ KeyTick
  \/ KeyBlur

KeySpec == KeyInit /\ [][KeyNext]_vars

(***************************************************************************)
(* The launch specification: the processes of one wrapper identity, each   *)
(* running main.js from its top.  A step is what one process does between  *)
(* two accesses to what the processes share: the token file, the restore   *)
(* file and the single-instance lock.  A handler of the lock holder is one *)
(* step.                                                                   *)
(***************************************************************************)
frozenVars == <<variant, app, win, creatingPromise, isWindowCreationStarted,
                networkLockdownInstalled, filtersInstalled, quittingFromGesture, isRelaunching,
                windows, created, obsVars, polVars, histVars>>

\* process p changes a persisted file
WriteBy(p, file) == [file |-> file, pid |-> p, heldLock |-> (lock = p)]

\* the process is launched; only the Grok wrapper has a startup gate
StartProcess(p) ==
  /\ procs[p].pc = "notLaunched"
  /\ procs' = [procs EXCEPT ![p].pc = IF variant = "grok" THEN "gate" ELSE "lock"]
  /\ UNCHANGED <<frozenVars, diskVars, exitTimer, lock, signals, lastWrite,
                 readySince>>

\* a bug: the blocked launch runs on to the lock request
AfterGate_GoesOn(blocked) == "lock"

\* if (shouldBlockThisLaunchDueToExitGate()) { app.exit(0); }: main.js runs
\* before the message loop does, where app.exit ends the process at once;
\* otherwise the script goes on to app.requestSingleInstanceLock()
AfterGate(blocked) == IF blocked THEN "exited" ELSE "lock"

\* shouldBlockThisLaunchDueToExitGate: readRelaunchToken() and the tests on
\* what it returned
GateRead(p) ==
  /\ procs[p].pc = "gate"
  /\ LET info == readRelaunchToken(tokenFile)
     IN  procs' = [procs EXCEPT ![p] =
           IF ~info.present
             THEN [@ EXCEPT !.pc = AfterGate(FALSE), !.through = "absent"]
           ELSE IF TokenIsStale(info)
             THEN [@ EXCEPT !.pc = "gateClear", !.info = info]
           ELSE IF info.allowedLaunches > 0
             THEN [@ EXCEPT !.pc = "consumeRead", !.info = info]
           ELSE [@ EXCEPT !.pc = AfterGate(TRUE), !.through = "blocked"]]
  /\ UNCHANGED <<frozenVars, diskVars, exitTimer, lock, signals, lastWrite,
                 readySince>>

\* clearRelaunchToken() of a gate or a consume that read a stale token
GateClear(p) ==
  /\ procs[p].pc \in {"gateClear", "consumeClear"}
  /\ tokenFile' = NoToken
  /\ lastWrite' = WriteBy(p, "token")
  /\ procs' = [procs EXCEPT ![p] =
       [@ EXCEPT !.pc = "lock",
                 !.through = IF @ = "none" THEN "stale" ELSE @]]
  /\ UNCHANGED <<frozenVars, restoreFile, exitTimer, lock, signals, readySince>>

\* consumeOneAllowedLaunchIfPresent: its own readRelaunchToken() and tests;
\* the gate lets the launch through whatever consume returns
ConsumeRead(p) ==
  /\ procs[p].pc = "consumeRead"
  /\ LET info == readRelaunchToken(tokenFile)
     IN  procs' = [procs EXCEPT ![p] =
           IF ~info.present
             THEN [@ EXCEPT !.pc = "lock", !.through = "token"]
           ELSE IF TokenIsStale(info)
             THEN [@ EXCEPT !.pc = "consumeClear", !.through = "token",
                            !.info = info]
           ELSE IF info.allowedLaunches <= 0
             THEN [@ EXCEPT !.pc = "lock", !.through = "token"]
           ELSE [@ EXCEPT !.pc = "consumeWrite", !.through = "token",
                          !.info = info]]
  /\ UNCHANGED <<frozenVars, diskVars, exitTimer, lock, signals, lastWrite,
                 readySince>>

\* fs.writeFileSync({...info, allowedLaunches: info.allowedLaunches - 1})
ConsumeWrite(p) ==
  /\ procs[p].pc = "consumeWrite"
  /\ tokenFile' = RewrittenToken(procs[p].info)
  /\ lastWrite' = WriteBy(p, "token")
  /\ procs' = [procs EXCEPT ![p].pc = "lock"]
  /\ UNCHANGED <<frozenVars, restoreFile, exitTimer, lock, signals, readySince>>

\* a bug: every process gets the lock
requestSingleInstanceLock_Always(holder) == TRUE

\* app.requestSingleInstanceLock() is true when no process holds the lock
requestSingleInstanceLock(holder) == holder = 0

\* const gotLock = app.requestSingleInstanceLock(); if (!gotLock) app.quit();
\* else the handlers are registered.  The failed request makes the holder
\* get a second-instance event.
RequestLock(p) ==
  /\ procs[p].pc = "lock"
  /\ IF requestSingleInstanceLock(lock)
       THEN /\ lock' = p
            /\ procs' = [procs EXCEPT ![p].pc = "starting"]
            /\ UNCHANGED signals
       ELSE /\ signals < MaxSignals
            /\ signals' = signals + 1
            /\ procs' = [procs EXCEPT ![p] =
                 [@ EXCEPT !.pc = "exited", !.through = "lockFailed"]]
            /\ UNCHANGED lock
  /\ UNCHANGED <<frozenVars, diskVars, exitTimer, lastWrite, readySince>>

\* app.whenReady().then(() => createWindowOnce())
WhenReady(p) ==
  /\ procs[p].pc = "starting"
  /\ procs' = [procs EXCEPT ![p] = [@ EXCEPT !.pc = "running", !.window = "loading"]]
  /\ UNCHANGED <<frozenVars, diskVars, exitTimer, lock, signals, lastWrite,
                 readySince>>

\* ready-to-show of the process's window; Grok's handler clears the token
WindowReady(p) ==
  /\ procs[p].pc \in {"running", "exiting"}
  /\ procs[p].window = "loading"
  /\ procs' = [procs EXCEPT ![p].window = "ready"]
  /\ IF variant = "grok"
       THEN /\ tokenFile' = NoToken
            /\ lastWrite' = WriteBy(p, "token")
            /\ readySince' = TRUE
       ELSE UNCHANGED <<tokenFile, lastWrite, readySince>>
  /\ UNCHANGED <<frozenVars, restoreFile, exitTimer, lock, signals>>

\* every process that is gone no longer counts as let through by the token
\* on disk, once a gesture writes a new one
Forgotten(ps) ==
  [q \in Pids |-> IF ps[q].pc = "exited" /\ ps[q].through = "token"
                    THEN [ps[q] EXCEPT !.through = "earlierToken"] ELSE ps[q]]

\* the second-instance handler of the lock holder; whether its window has the
\* focus is the user's doing
HandleSecondInstance(p, focused) ==
  /\ lock = p
  /\ procs[p].pc \in {"running", "exiting"}
  /\ signals > 0
  /\ signals' = signals - 1
  /\ IF procs[p].window = "ready" /\ focused
       THEN \/ /\ variant = "grok"
               /\ IF procs[p].pc = "exiting"
                    THEN UNCHANGED <<procs, lock, diskVars, exitTimer, lastWrite,
                                     readySince>>
                    ELSE /\ restoreFile' = writeRestoreUrl(DefaultOrigin(variant))
                         /\ tokenFile' = Token(0, 1)
                         /\ lastWrite' = WriteBy(p, "token")
                         /\ exitTimer' = ExitDelayMs
                         /\ readySince' = FALSE
                         /\ procs' = Forgotten([procs EXCEPT ![p].pc = "exiting"])
                         /\ UNCHANGED lock
            \/ /\ variant \in {"claude", "chatgpt"}
               /\ restoreFile' = writeRestoreUrl(DefaultOrigin(variant))
               /\ lastWrite' = WriteBy(p, "restore")
               /\ procs' = [procs EXCEPT ![p] =
                    [@ EXCEPT !.pc = "exited", !.window = "none"]]
               /\ lock' = 0
               /\ UNCHANGED <<tokenFile, exitTimer, readySince>>
            \/ /\ variant = "lumo"
               /\ restoreFile' = writeRestoreUrl(DefaultOrigin(variant))
               /\ lastWrite' = WriteBy(p, "restore")
               /\ procs' = [procs EXCEPT ![p].window = "hidden"]
               /\ UNCHANGED <<lock, tokenFile, exitTimer, readySince>>
       ELSE /\ procs' = [procs EXCEPT ![p].window =
                 IF @ = "none" THEN "loading"
                 ELSE IF @ = "hidden" THEN "ready" ELSE @]
            /\ UNCHANGED <<lock, diskVars, exitTimer, lastWrite, readySince>>
  /\ UNCHANGED frozenVars

\* the process ends: its windows and its lock go, events sent to it are lost
Gone(p) ==
  /\ procs' = [procs EXCEPT ![p] = [@ EXCEPT !.pc = "exited", !.window = "none"]]
  /\ lock' = 0
  /\ signals' = 0

\* setTimeout(() => app.exit(0), 600) of the gesture fires
ExitAfterGesture(p) ==
  /\ procs[p].pc = "exiting"
  /\ exitTimer = 0
  /\ exitTimer' = -1
  /\ Gone(p)
  /\ UNCHANGED <<frozenVars, diskVars, lastWrite, readySince>>

\* the user closes the window: window-all-closed calls app.quit(); Lumo's
\* 'close' handler clears the restore file
UserCloses(p) ==
  /\ procs[p].pc \in {"running", "exiting"}
  /\ procs[p].window # "none"
  /\ Gone(p)
  /\ exitTimer' = -1
  /\ IF variant = "lumo"
       THEN /\ restoreFile' = clearRestoreUrl
            /\ lastWrite' = WriteBy(p, "restore")
       ELSE UNCHANGED <<restoreFile, lastWrite>>
  /\ UNCHANGED <<frozenVars, tokenFile, readySince>>

\* d milliseconds pass: the token on disk and the copies the processes read
\* age together, the exit timer runs down
LaunchTick(d) ==
  /\ \/ d = ExitDelayMs /\ exitTimer > 0
     \/ d = RELAUNCH_GRACE_MS /\ exitTimer < 0 /\ tokenFile.present
                              /\ ~TokenIsStale(tokenFile)
  /\ tokenFile.age + d <= MaxAge
  /\ tokenFile' = IF tokenFile.present
                    THEN [tokenFile EXCEPT !.age = @ + d] ELSE tokenFile
  /\ procs' = [q \in Pids |->
                 IF procs[q].info.present
                   THEN [procs[q] EXCEPT !.info.age = Min(@ + d, MaxAge)]
                   ELSE procs[q]]
  /\ exitTimer' = IF exitTimer > 0 THEN Max(0, exitTimer - d) ELSE exitTimer
  /\ UNCHANGED <<frozenVars, restoreFile, lock, signals, lastWrite, readySince>>

\* no process runs; the Grok wrapper may find the token of a gesture whose
\* process has just exited
LaunchInit ==
  /\ variant \in Variants
  /\ app = "notStarted"
  /\ ProcInit
  /\ restoreFile = NoFile
  /\ tokenFile \in IF variant = "grok" THEN {NoToken, Token(ExitDelayMs, 1)}
                   ELSE {NoToken}
  /\ launches = 0
  /\ lastCall = NoCall
  /\ known = NoKnown
  /\ polInput = ""
  /\ isTTY = FALSE
  /\ polEvent = NoEvent
  /\ polPrev = "none"
  /\ polAction = "none"
  /\ KeyIdle
  /\ lastGate = NoGate
  /\ lastSecond = NoSecond
  /\ tokenPasses = 0
  /\ gestureAge = -1
  /\ LaunchIdle

LaunchNext ==
  \/ \E p \in Pids : StartProcess(p)
  \/ \E p \in Pids : GateRead(p)
  \/ \E p \in Pids : GateClear(p)
  \/ \E p \in Pids : ConsumeRead(p)
  \/ \E p \in Pids : ConsumeWrite(p)
  \/ \E p \in Pids : RequestLock(p)
  \/ \E p \in Pids : WhenReady(p)
  \/ \E p \in Pids : WindowReady(p)
  \/ \E p \in Pids, focused \in BOOLEAN : HandleSecondInstance(p, focused)
  \/ \E p \in Pids : ExitAfterGesture(p)
  \/ \E p \in Pids : UserCloses(p)
  \/ \E d \in TimeSteps : LaunchTick(d)

LaunchSpec == LaunchInit /\ [][LaunchNext]_vars

(***************************************************************************)
(* Claims about the domain policy and the network filter (PolicySpec).     *)
(***************************************************************************)
\* "h ends with '.' + a", stated on the positions of h
EndsWithDotEntry(h, a) == \E k \in 1..Len(h) : SubSeq(h, k, Len(h)) = "." \o a

\* h is an allow-list entry of wrapper v, or a subdomain of one
SubdomainOrEqual(v, h) ==
  \E a \in ALLOWED_HOSTS(v) : h = a \/ EndsWithDotEntry(h, a)

\* C1: isAllowed on an https URL with host h is true exactly when h, in lower
\* case, equals an allow-list entry or ends with "." and an entry
C1_HostSuffixMatch ==
  \A h \in TestHostsOf[variant] :
    (polEvent.kind = "isAllowed" /\ polEvent.url \in HttpsForms(h))
      => (polEvent.result <=> SubdomainOrEqual(variant, toLowerCase(h)))

\* C1 happens: evilgrok.com was asked about in the Grok wrapper and rejected
C1_Witness ==
  /\ variant = "grok"
  /\ polEvent = [kind |-> "isAllowed", url |-> "https://evilgrok.com/",
                 result |-> FALSE]

\* C2: isAllowed is false for every input that does not parse and for every
\* input whose scheme is not https
C2_FailsClosed ==
  polEvent.kind = "isAllowed"
    => LET u == ParseURL(polEvent.url)
       IN  (~u.ok \/ u.protocol # "https:") => ~polEvent.result

\* C2 happens: plain http on an allow-listed host was asked about and rejected
C2_Witness ==
  /\ polEvent.kind = "isAllowed"
  /\ polEvent.url = "http://" \o DefaultHost(variant) \o "/"
  /\ ~polEvent.result

\* C3: shouldOpenExternally is true exactly on http and https URLs that
\* isAllowed rejects
C3_ExternalExactly ==
  polEvent.kind = "shouldOpenExternally"
    => LET u == ParseURL(polEvent.url)
       IN  polEvent.result <=>
             /\ u.ok
             /\ u.protocol \in {"http:", "https:"}
             /\ ~isAllowed(variant, polEvent.url)

\* C3 happens: a disallowed https URL was sent to the system browser
C3_Witness ==
  /\ polEvent.kind = "shouldOpenExternally"
  /\ polEvent.url = "https://" \o OtherHost \o "/"
  /\ polEvent.result

\* C4: the filter cancels a request that does not parse, lets through a scheme
\* that is neither http nor https, cancels http and https URLs that isAllowed
\* rejects and lets the allowed ones through, whatever came before
C4_FilterDecision ==
  polEvent.kind = "request"
    => LET u == ParseURL(polEvent.url)
       IN  polEvent.result =
             IF ~u.ok THEN TRUE
             ELSE IF u.protocol \notin {"http:", "https:"} THEN FALSE
             ELSE ~isAllowed(variant, polEvent.url)

\* C4 happens: an allowed request passed right after a cancelled one
C4_Witness ==
  /\ polEvent.kind = "request"
  /\ polEvent.url = DefaultOrigin(variant)
  /\ ~polEvent.result
  /\ polPrev = "cancelled"

\* schemes whose requests leave the process
OutboundProtocols == {"http:", "https:", "ws:", "wss:", "ftp:"}

\* C5: every outbound request the filter does not cancel, whatever its scheme,
\* goes to an allow-list entry or a subdomain of one
C5_OnlyAllowListedHostsPass ==
  LET u == ParseURL(polEvent.url)
  IN  ( /\ polEvent.kind = "request"
        /\ ~polEvent.result
        /\ u.ok
        /\ u.protocol \in OutboundProtocols )
        => SubdomainOrEqual(variant, toLowerCase(u.hostname))

\* C20: a request of page content for a new window is denied whatever the
\* URL, and the URL goes to the system browser exactly when it parses with
\* scheme http or https
C20_WindowOpenDenied ==
  polEvent.kind = "windowOpen"
    => /\ polAction = "deny"
       /\ LET u == ParseURL(polEvent.url)
          IN  polEvent.result <=> (u.ok /\ u.protocol \in {"http:", "https:"})

\* C20 happens: a new window at the wrapper's own http origin was denied and
\* handed to the system browser
C20_Witness ==
  /\ polEvent.kind = "windowOpen"
  /\ polEvent.url = "http://" \o DefaultHost(variant) \o "/"
  /\ polEvent.result
  /\ polAction = "deny"

\* C21: a navigation or redirect to a target that is not allow-listed is
\* cancelled in the shell and handed to the system browser; one to an
\* allow-listed https URL is neither cancelled nor handed over
C21_NavigationDeflected ==
  ( /\ polEvent.kind = "navigate"
    /\ ParseURL(polEvent.url).ok )
    => IF isAllowed(variant, polEvent.url)
         THEN ~polEvent.result /\ polAction = "none"
         ELSE polEvent.result /\ polAction = "external"

\* C32: in every wrapper the filter writes a line for a request only when it
\* cancels the request and the process is attached to a terminal
C32_LogsOnlyOnTerminal ==
  (polEvent.kind = "request" /\ polAction = "logged")
    => (isTTY /\ polEvent.result)

\* the one call the keyboard contract names for a key event, "none" when the
\* event matches no shortcut
ContractCall(input) ==
  LET key == toLowerCase(input.key)
      mod == input.control \/ input.meta
  IN  IF mod /\ key = "w" THEN "w.close"
      ELSE IF mod /\ key = "q" THEN "app.quit"
      ELSE IF mod /\ ~input.shift /\ key = "r" THEN "reload"
      ELSE IF mod /\ input.shift /\ key = "r" THEN "reloadIgnoringCache"
      ELSE IF mod /\ input.shift /\ key = "i" THEN "toggleDevTools"
      ELSE IF input.key = "F11" THEN "setFullScreen"
      ELSE "none"

\* the call the listener ended with
MainCall(calls) == IF calls = <<>> THEN "none" ELSE calls[Len(calls)]

\* C33: in every wrapper a key-down that reaches the window and matches a
\* shortcut makes the listener do that shortcut's action and consume the
\* event: Ctrl/Cmd+W closes the window, Ctrl/Cmd+Q quits, Ctrl/Cmd+R reloads,
\* Ctrl/Cmd+Shift+R reloads past the cache, Ctrl/Cmd+Shift+I toggles the
\* diagnostics panel, F11 toggles fullscreen; any other key-down is left alone
C33_ShortcutContract ==
  (keyOutcome # NoOutcome /\ keyInput.type = "keyDown")
    => /\ MainCall(keyOutcome.calls) = ContractCall(keyInput)
       /\ keyOutcome.prevented <=> ContractCall(keyInput) # "none"

(***************************************************************************)
(* Claims about the window lifecycle (Spec).                               *)
(***************************************************************************)
\* C6: a process never has two live windows, and createWindowOnce constructs
\* nothing when it is called while a window exists or a creation is in flight
C6_AtMostOneWindow ==
  /\ Cardinality(LiveWindows) <= 1
  /\ lastCall.outcome = "created" => (~lastCall.liveWindow /\ ~lastCall.inFlight)

\* C6 happens: createWindowOnce was called during the first creation and the
\* process still has the one window
C6_Witness ==
  /\ lastCall.inFlight
  /\ lastCall.liveWindow
  /\ created = 1
  /\ Cardinality(LiveWindows) = 1

\* C7: a createWindowOnce call made while a creation is in flight returns the
\* promise in flight
C7_InFlightCallerJoins ==
  lastCall.inFlight => lastCall.outcome = "promise"

\* the restore file holds a record whose URL the policy allows
RecordAllowed(v, file) ==
  file.state = "json" /\ file.isString /\ isAllowed(v, file.restoreUrl)

\* C8: a new window loads the record's URL when a record is present and
\* allowed, the default origin otherwise; what it loads is always allowed
C8_InitialUrl ==
  \A w \in WindowIds :
    windows[w].state # "unborn"
      => /\ windows[w].startUrl =
              IF RecordAllowed(variant, windows[w].seen)
                THEN windows[w].seen.restoreUrl
                ELSE DefaultOrigin(variant)
         /\ isAllowed(variant, windows[w].startUrl)

\* C8 happens: a window was created over a record that points at a disallowed
\* URL, and over a record that is used
C8_Witness ==
  \E w \in WindowIds :
    /\ windows[w].state = "alive"
    /\ windows[w].seen = RestoreRecord(EvilUrl)
    /\ windows[w].startUrl = DefaultOrigin(variant)

\* C9: a record holding an allowed URL is loaded as the initial URL, is off the
\* disk once that load's outcome is known, and a later startup without a
\* gesture in between loads the default origin
C9_RecordUsedOnce ==
  /\ \A w \in WindowIds :
       (windows[w].state # "unborn" /\ RecordAllowed(variant, windows[w].seen))
         => windows[w].startUrl = windows[w].seen.restoreUrl
  /\ RecordAllowed(variant, known.file) => restoreFile.state = "absent"
  /\ \A w \in WindowIds :
       ( /\ windows[w].state # "unborn"
         /\ RecordAllowed(variant, known.file)
         /\ known.launch < launches )
         => windows[w].startUrl = DefaultOrigin(variant)

\* C10: whatever the record found at startup holds, it is off the disk once
\* the outcome of the first window's initial load is known
C10_RecordDeletedAfterOutcome ==
  (known.file.state = "json" /\ known.file.isString)
    => restoreFile.state = "absent"

(***************************************************************************)
(* Claims about the exit gate of the full-restart wrapper (Spec, where     *)
(* launches follow one another and each runs its startup gate in one go).  *)
(***************************************************************************)
\* the token the gate read was within the grace window
GateReadFresh == lastGate.age \in 0..RELAUNCH_GRACE_MS

\* C11: of the launches that run the startup gate on a fresh token written
\* with one allowed launch, the first is let through and leaves the count at
\* 0, every later one is blocked, so the token lets one launch through
C11_OneLaunchPerToken ==
  /\ tokenPasses <= 1
  /\ (GateReadFresh /\ lastGate.count = 1)
       => (lastGate.outcome = "consumed" /\ lastGate.left = 0)
  /\ (GateReadFresh /\ lastGate.count = 0)
       => (lastGate.outcome = "blocked" /\ lastGate.left = 0)

\* C11 happens: a launch was just blocked by the token that let one through
C11_Witness ==
  /\ lastGate.outcome = "blocked"
  /\ GateReadFresh
  /\ tokenPasses = 1
  /\ app = "exited"

\* the launch whose gate just ran went on: it starts up as the primary, or it
\* reached the lock and the running process handled its second-instance event
LaunchWentOn == app = "starting" \/ lastSecond.branch # "none"

\* C12: a token older than the grace window never blocks a launch, whatever
\* count it holds: the gate deletes it and the launch goes on
C12_StaleTokenNeverBlocks ==
  lastGate.age > RELAUNCH_GRACE_MS
    => /\ lastGate.outcome = "stale"
       /\ lastGate.left = -1
       /\ LaunchWentOn

\* C12 happens: a launch found a stale token with no launches left and went on
C12_Witness ==
  /\ lastGate.age > RELAUNCH_GRACE_MS
  /\ lastGate.count = 0
  /\ LaunchWentOn

\* C22: a missing, unreadable or corrupt restore file yields no URL, so the
\* window loads the default origin; a missing, unreadable or corrupt token
\* file, or one whose token is no string or whose ts is no number, yields no
\* token, so the gate lets the launch go on
C22_BadFilesReadAsAbsent ==
  /\ \A w \in WindowIds :
       ( /\ windows[w].state # "unborn"
         /\ windows[w].seen \in {NoFile, CorruptFile, NonStringRecord} )
         => windows[w].startUrl = DefaultOrigin(variant)
  /\ lastGate.found \in {"missing", "corrupt", "badToken", "badTs"}
       => (lastGate.outcome = "absent" /\ LaunchWentOn)

\* C22 happens: a launch got through the gate over a token file whose ts is
\* not a number, and its window was created over a corrupt restore file
C22_Witness ==
  /\ tokenFile = BadTsField
  /\ \E w \in WindowIds :
       /\ windows[w].state = "alive"
       /\ windows[w].seen = CorruptFile
       /\ windows[w].startUrl = DefaultOrigin(variant)

\* C24: the token on disk always carries the time of the gesture that wrote
\* it, also after launches passed the gate on it; a launch is blocked only
\* within the grace window after the latest gesture, and a launch that comes
\* later finds the token stale and goes on
C24_GraceWindowNotExtended ==
  /\ readRelaunchToken(tokenFile).present => tokenFile.age = gestureAge
  /\ lastGate.outcome = "blocked"
       => lastGate.sinceGesture \in 0..RELAUNCH_GRACE_MS
  /\ lastGate.sinceGesture > RELAUNCH_GRACE_MS
       => (lastGate.outcome = "stale" /\ LaunchWentOn)

\* C24 happens: a launch passed the gate on the gesture's token 600 ms after
\* the gesture and left the token with that age and no launches
C24_Witness ==
  /\ lastGate.outcome = "consumed"
  /\ lastGate.sinceGesture = ExitDelayMs
  /\ tokenFile = Token(ExitDelayMs, 0)

\* C13: the launch that follows a restart gesture, whenever it comes, is the
\* one that starts up, and its window loads the URL the gesture saved
C13_NextLaunchRestores ==
  /\ [](lastGate.outcome = "consumed" => app = "starting")
  /\ [][( /\ app = "starting" /\ app' = "ready"
          /\ tokenFile.present /\ tokenFile.allowedLaunches = 0
          /\ RecordAllowed(variant, restoreFile) )
          => windows'[win'].startUrl = restoreFile.restoreUrl]_vars

(***************************************************************************)
(* Claims about the second-instance handler and the closed window (Spec).  *)
(***************************************************************************)
\* the window exists and is visible, focused and not minimized
WindowInFront ==
  /\ win # 0
  /\ windows[win].state = "alive"
  /\ windows[win].visible /\ windows[win].focused /\ ~windows[win].minimized

\* the step persists the current URL when it is an allow-listed one
PersistsCurrentUrl ==
  LET url == IF win # 0 /\ windows[win].state = "alive" THEN windows[win].url ELSE ""
  IN  restoreFile' = IF url # "" /\ isAllowed(variant, url) THEN RestoreRecord(url)
                     ELSE restoreFile

\* the step writes a one-shot token and arms the exit
ExitsWithToken ==
  tokenFile' = Token(0, 1) /\ exitTimer' = ExitDelayMs /\ windows' = windows

\* the step quits and writes no token
QuitsWithoutToken ==
  app' = "quitting" /\ tokenFile' = tokenFile /\ exitTimer' = exitTimer
                    /\ windows' = windows

\* the step hides the window and the process stays
HidesWindow ==
  /\ ~windows'[win].visible
  /\ app' = app /\ exitTimer' = exitTimer /\ tokenFile' = tokenFile

\* what the startup gate of the launching process leaves of the token
TokenLeftByLauncher == StartupGate(variant, tokenFile).file

\* the step calls createWindowOnce and the handler writes neither file
CallsCreateWindowOnce ==
  /\ lastSecond'.branch = "forward"
  /\ lastCall'.outcome \in {"window", "created", "promise"}
  /\ (win # 0 /\ windows[win].state = "alive")
       => windows'[win].visible /\ windows'[win].focused /\ ~windows'[win].minimized
  /\ restoreFile' = restoreFile
  /\ tokenFile' = TokenLeftByLauncher
  /\ app' = app /\ exitTimer' = exitTimer

\* the step leaves the process and the restore file as they are
IgnoresEvent ==
  lastSecond'.branch = "ignored" /\ UNCHANGED <<procVars, restoreFile>>

\* C17, as the wrappers do it: with the window in front and no gesture exit
\* under way the handler persists the current allow-listed URL and then Grok
\* exits behind a one-shot token, Claude and ChatGPT quit without a token, and
\* Lumo hides the window; Claude and ChatGPT ignore every event and Grok a
\* repeated gesture while a gesture exit is under way; otherwise the handler
\* calls createWindowOnce and writes no record and no token
C17_HandlerBranches ==
  [][lastSecond'.branch # "none" =>
       IF variant \in {"claude", "chatgpt"}
         THEN IF quittingFromGesture THEN IgnoresEvent
              ELSE IF WindowInFront
                THEN lastSecond'.branch = "gesture" /\ PersistsCurrentUrl
                                                    /\ QuitsWithoutToken
              ELSE CallsCreateWindowOnce
       ELSE IF variant = "grok"
         THEN IF WindowInFront
                THEN IF isRelaunching THEN IgnoresEvent
                     ELSE lastSecond'.branch = "gesture" /\ PersistsCurrentUrl
                                                         /\ ExitsWithToken
              ELSE CallsCreateWindowOnce
       ELSE IF WindowInFront
              THEN lastSecond'.branch = "gesture" /\ PersistsCurrentUrl /\ HidesWindow
            ELSE CallsCreateWindowOnce]_vars

\* C17 happens: Claude's handler found the window in front, saved its URL and
\* quit, and no token was written
C17_Witness ==
  /\ variant = "claude"
  /\ lastSecond.branch = "gesture"
  /\ app = "quitting"
  /\ restoreFile.state = "json"
  /\ ~tokenFile.present

\* C17 as stated: in every wrapper, with the window in front the handler
\* persists the URL and then either exits behind a one-shot token or hides the
\* window; otherwise it brings the window forward or creates one and writes
\* no record and no token
C17_TwoPolicies ==
  [][lastSecond'.branch # "none" =>
       IF WindowInFront
         THEN /\ PersistsCurrentUrl
              /\ \/ (ExitsWithToken /\ ~HidesWindow)
                 \/ (HidesWindow /\ ~ExitsWithToken)
         ELSE /\ lastCall'.outcome \in {"window", "created"}
              /\ restoreFile' = restoreFile
              /\ tokenFile' = TokenLeftByLauncher]_vars

\* C25: once the gesture has started, no second-instance event repeats it:
\* the Grok handler writes no further record or token and arms no further
\* exit, and the Claude and ChatGPT handlers leave the process and the files
\* as they are
C25_GestureNotRepeated ==
  [][lastSecond'.branch # "none"
       => /\ (variant = "grok" /\ isRelaunching)
               => /\ lastSecond'.branch # "gesture"
                  /\ restoreFile' = restoreFile
                  /\ tokenFile' = TokenLeftByLauncher
                  /\ exitTimer' = exitTimer
                  /\ isRelaunching'
          /\ (variant \in {"claude", "chatgpt"} /\ quittingFromGesture)
               => /\ lastSecond'.branch = "ignored"
                  /\ UNCHANGED <<procVars, diskVars>>]_vars

\* C25 happens: during the exit delay of a gesture a further event came with
\* the window still in front and was ignored, the gesture's token untouched
C25_Witness ==
  /\ variant = "grok"
  /\ isRelaunching
  /\ exitTimer >= 0
  /\ lastSecond.branch = "ignored"
  /\ tokenFile.present

\* C26: a record the gesture writes holds the window's current URL and that
\* URL is allow-listed; when the current URL is empty, not allow-listed or
\* cannot be had, the gesture leaves the file as it was
C26_GestureWritesAllowedUrl ==
  [][lastSecond'.branch = "gesture"
       => LET url == IF win # 0 /\ windows[win].state = "alive"
                       THEN windows[win].url ELSE ""
          IN  IF url # "" /\ isAllowed(variant, url)
                THEN restoreFile' = RestoreRecord(url)
                ELSE restoreFile' = restoreFile]_vars

\* C26 happens: the gesture came while the window showed a page that is not
\* allow-listed, and the record of an earlier gesture is still on disk
C26_Witness ==
  /\ lastSecond.branch = "gesture"
  /\ win # 0
  /\ windows[win].state = "alive"
  /\ windows[win].url = BlankUrl
  /\ restoreFile = RestoreRecord(DeepUrl(variant))

\* C27: the network filter is registered once in a process however many
\* windows createWindowOnce made, and every window was constructed with the
\* filter already there
C27_FilterInstalledOnce ==
  /\ filtersInstalled <= 1
  /\ created > 0 => (filtersInstalled = 1 /\ networkLockdownInstalled)
  /\ \A w \in WindowIds : windows[w].state # "unborn" => windows[w].filtered

\* C27 happens: the process made a window, saw it closed and made another
C27_Witness ==
  /\ created = 2
  /\ windows[1].state = "destroyed"
  /\ windows[2].state = "alive"
  /\ filtersInstalled = 1

\* C28: in the Lumo wrapper an event that finds the window in front hides it
\* and takes its taskbar entry away, the process and the window staying; an
\* event that finds the window hidden shows and focuses that window with its
\* taskbar entry back and makes no window
C28_HideThenShow ==
  [][(variant = "lumo" /\ lastSecond'.branch # "none")
       => LET there == win # 0 /\ windows[win].state = "alive"
              same == /\ win' = win /\ created' = created /\ app' = app
                      /\ windows'[win].state = "alive"
          IN  /\ ( /\ there /\ windows[win].visible /\ windows[win].focused
                   /\ ~windows[win].minimized )
                   => /\ same
                      /\ ~windows'[win].visible
                      /\ windows'[win].skipTaskbar
              /\ (there /\ ~windows[win].visible)
                   => /\ same
                      /\ windows'[win].visible
                      /\ windows'[win].focused
                      /\ ~windows'[win].skipTaskbar]_vars

\* C28 happens: the first window of the run was hidden by a gesture, which
\* wrote the record, and a later event has it shown and focused again
C28_Witness ==
  /\ variant = "lumo"
  /\ launches = 1 /\ created = 1 /\ win = 1
  /\ windows[1].seen = NoFile
  /\ restoreFile = RestoreRecord(DefaultOrigin(variant))
  /\ lastSecond.branch = "forward"
  /\ windows[1].state = "alive"
  /\ windows[1].readyFired
  /\ windows[1].visible /\ windows[1].focused /\ ~windows[1].skipTaskbar

\* C29: in the Lumo wrapper every step that closes a window or quits through
\* a shortcut leaves no restore file, so none is on disk once the process has
\* ended and the windows of the next startup load the default origin
C29_CloseDeletesRecord ==
  /\ [](variant = "lumo"
          => /\ app = "exited" => restoreFile = NoFile
             /\ \A w \in WindowIds :
                  (launches >= 2 /\ windows[w].state # "unborn")
                    => windows[w].startUrl = DefaultOrigin(variant))
  /\ [][( /\ variant = "lumo"
          /\ \/ \E w \in WindowIds : Alive(w) /\ windows'[w].state # "alive"
             \/ app = "ready" /\ app' = "quitting" )
          => restoreFile' = NoFile]_vars

\* C29 happens: the run began over a record of the default origin, which no
\* load handler deletes; the window loaded and was closed, and the record is
\* gone
C29_Witness ==
  /\ variant = "lumo"
  /\ app = "quitting"
  /\ windows[1].state = "destroyed"
  /\ windows[1].load = "finished"
  /\ windows[1].seen = RestoreRecord(DefaultOrigin(variant))
  /\ restoreFile = NoFile

\* C30: a window is visible or focused only once its ready-to-show event
\* came, whatever activation and second-instance events arrive before
C30_VisibleOnlyWhenReady ==
  \A w \in WindowIds :
    (Alive(w) /\ (windows[w].visible \/ windows[w].focused))
      => windows[w].readyFired

\* C31: once the loadURL of the latest creation has rejected, the creation
\* state is clear (no promise kept, the started flag down), so that no
\* createWindowOnce call returns a promise: the call brings the live window
\* forward or, with no live window, is free to create one
C31_FailedCreationReset ==
  (created > 0 /\ windows[created].load = "failed")
    => /\ creatingPromise = "null"
       /\ ~isWindowCreationStarted
       /\ lastCall.outcome # "promise"
       /\ lastCall.outcome = "window" => lastCall.liveWindow

\* C31 happens: the first creation failed and its window went; a later call
\* made a second window, whose load failed too, and a call after that
\* brought the second window forward
C31_Witness ==
  /\ created = 2
  /\ windows[1].state = "destroyed" /\ windows[1].load = "failed"
  /\ windows[2].state = "alive" /\ windows[2].load = "failed"
  /\ lastCall.outcome = "window"

\* C18: once the window is closed, at whatever point of its life, the handle
\* and the creation state are cleared, and the next createWindowOnce call
\* constructs a window
C18_CloseClearsCreationState ==
  /\ (Running /\ created > 0 /\ LiveWindows = {})
       => (win = 0 /\ creatingPromise = "null" /\ ~isWindowCreationStarted)
  /\ (lastCall.outcome # "none" /\ ~lastCall.liveWindow)
       => lastCall.outcome = "created"

(***************************************************************************)
(* Claims about processes side by side (LaunchSpec).                       *)
(***************************************************************************)
\* the processes the startup gate let through on account of the token on disk
ThroughToken == {p \in Pids : procs[p].through = "token"}

\* C14: however the processes that start together interleave, at most one of
\* them passes the startup gate on account of one token
C14_OnePassPerToken == Cardinality(ThroughToken) <= 1

\* C15: a persisted file is written, rewritten or deleted only by the process
\* that holds the single-instance lock
C15_OnlyLockHolderWrites == lastWrite.file # "none" => lastWrite.heldLock

\* the processes that own a window
WindowOwners == {p \in Pids : procs[p].window # "none"}

\* C16: a process that did not get the lock quits without ever creating a
\* window, only the lock holder owns a window, and a failed request leaves a
\* second-instance event for the holder
C16_OnlyLockHolderOwnsWindow ==
  /\ [](\A p \in Pids : procs[p].through = "lockFailed"
                          => procs[p].pc = "exited" /\ procs[p].window = "none")
  /\ [](WindowOwners \subseteq {lock} /\ Cardinality(WindowOwners) <= 1)
  /\ [][\A p \in Pids :
          (procs[p].pc = "lock" /\ procs'[p].pc = "exited")
            => (lock' = lock /\ lock # 0 /\ lock # p /\ signals' = signals + 1)]_vars

\* C16 happens: a process failed to get the lock and quit while the holder
\* owns a window and has its second-instance event to handle
C16_Witness ==
  \E p, q \in Pids :
    /\ procs[p].through = "lockFailed"
    /\ lock = q
    /\ procs[q].window # "none"
    /\ signals > 0

\* C23: a launch the startup gate blocks ends there: it never requests the
\* lock, never owns a window, and its ending leaves the lock, the pending
\* second-instance events, the files and the exit timer of the running
\* process as they were
C23_BlockedLaunchEndsAtGate ==
  /\ [](\A p \in Pids :
          procs[p].through = "blocked"
            => /\ procs[p].pc = "exited"
               /\ procs[p].window = "none"
               /\ lock # p)
  /\ [][\A p \in Pids :
          (procs[p].pc = "gate" /\ procs'[p].through = "blocked")
            => /\ signals' = signals
               /\ lock' = lock
               /\ exitTimer' = exitTimer
               /\ UNCHANGED diskVars
               /\ \A q \in Pids \ {p} : procs'[q] = procs[q]]_vars

\* C23 happens: a launch was blocked while another process holds the lock and
\* owns a window
C23_Witness ==
  \E p, q \in Pids :
    /\ procs[p].through = "blocked"
    /\ procs[p].pc = "exited"
    /\ lock = q
    /\ procs[q].window = "ready"

\* C19: once a window reached ready, and until the next restart gesture, no
\* token is on disk, so the startup gate blocks no launch
C19_NoTokenAfterReady ==
  readySince
    => /\ ~tokenFile.present
       /\ \A p \in Pids : procs[p].pc = "gate" => ~shouldBlockThisLaunchDueToExitGate(tokenFile).blocked

====
